---- MODULE Spec2Model ----
(***************************************************************************)
(* Framework shell manager (app/framework_shells.py): the record store,    *)
(* the process launcher, the lifecycle controller, orphan adoption and     *)
(* the log tail, as a state machine over the metadata directory, the log   *)
(* files, the OS process table and the manager's in-memory PTY map.        *)
(*                                                                         *)
(* Python values: Optional[T] is <<>> (None) or <<x>>; a dict is a         *)
(* function; a list is a sequence; a path is a sequence of one-character   *)
(* strings, so that str.startswith is computed on characters.              *)
(***************************************************************************)
EXTENDS Integers, Sequences, FiniteSets, TLC

\* ------------------------------------------------------------------ bounds
MaxIds == 2
MaxPids == 3
MaxBoots == 1
MaxFds == 1
ConfiguredMaxShells == 1
MaxLines == 3
MaxWrites == 2
MaxSubs == 1
MaxStale == 1
MaxQueues == 2
MaxTimeout == 3
MaxJobs == 2
MaxJobBoots == 1

\* ------------------------------------------------------- program constants
DEFAULT_MAX_SHELLS == 5
LOG_TAIL_BYTES == 4096
SIGTERM == 15
SIGKILL == 9

\* ----------------------------------------------------------- Python values
None == <<>>
Some(x) == <<x>>
\* Python truthiness of an Optional[int]: None and 0 are falsy.
Truthy(o) == o # None /\ o[1] # 0
\* Python truthiness of an Optional[str]: None and "" are falsy.
TruthyStr(o) == o # None /\ o[1] # ""
\* Python's `a or b` on Optional[int] values.
PyOr(a, b) == IF Truthy(a) THEN a ELSE b
\* dict.setdefault(k, v)
\* Once({F(x) : x \in {e}}) is LET x == e IN F(x) with e evaluated a single
\* time, however often F uses x.
Once(S) == CHOOSE v \in S : TRUE

SetDefault(d, k, v) == IF k \in DOMAIN d THEN d ELSE d @@ (k :> v)
EmptyDict == [k \in {} |-> ""]

\* ------------------------------------------------------------------- paths
HOME_DIR == <<"/", "u">>
WorkDir == <<"/", "u", "/", "w">>
SiblingDir == <<"/", "u", "2">>
OutsideDir == <<"/", "e">>
StartsWith(s, p) == Len(s) >= Len(p) /\ SubSeq(s, 1, Len(p)) = p
\* logs_dir / f"{shell_id}.stdout.log"
LogPath(shell_id, stream) == <<shell_id, stream>>

\* ------------------------------------------------------------- ShellRecord
ShellRecord(id, command, label, cwd, env_overrides, pid, status, created_at, updated_at, autostart, stdout_log, stderr_log, exit_code, run_id, launcher_pid, adopted, uses_pty) ==
    [id |-> id, command |-> command, label |-> label, cwd |-> cwd,
     env_overrides |-> env_overrides, pid |-> pid, status |-> status,
     created_at |-> created_at, updated_at |-> updated_at,
     autostart |-> autostart, stdout_log |-> stdout_log,
     stderr_log |-> stderr_log, exit_code |-> exit_code, run_id |-> run_id,
     launcher_pid |-> launcher_pid, adopted |-> adopted, uses_pty |-> uses_pty]

PersistedFields ==
    {"id", "command", "label", "cwd", "env_overrides", "pid", "status",
     "created_at", "updated_at", "autostart", "stdout_log", "stderr_log",
     "exit_code", "run_id", "launcher_pid", "adopted", "uses_pty"}

\* ------------------------------------------------- JSON metadata document
\* A JSON value is tagged: <<"null">>, <<"num", n>>, <<"str", s>>,
\* <<"bool", b>>, <<"list", seq>>, <<"dict", f>>.  A document (meta.json) is
\* a function from the keys it holds to JSON values.
JNull == <<"null">>
JNum(n) == <<"num", n>>
JStr(s) == <<"str", s>>
JBool(b) == <<"bool", b>>
JList(s) == <<"list", s>>
JDict(d) == <<"dict", d>>
JOpt(o, tag) == IF o = None THEN JNull ELSE <<tag, o[1]>>

\* The JSON value _save_record writes under key k.
FieldJson(record, k) ==
    CASE k = "id" -> JStr(record.id)
      [] k = "command" -> JList(record.command)
      [] k = "label" -> JOpt(record.label, "str")
      [] k = "cwd" -> JStr(record.cwd)
      [] k = "env_overrides" -> JDict(record.env_overrides)
      [] k = "pid" -> JOpt(record.pid, "num")
      [] k = "status" -> JStr(record.status)
      [] k = "created_at" -> JNum(record.created_at)
      [] k = "updated_at" -> JNum(record.updated_at)
      [] k = "autostart" -> JBool(record.autostart)
      [] k = "stdout_log" -> JStr(record.stdout_log)
      [] k = "stderr_log" -> JStr(record.stderr_log)
      [] k = "exit_code" -> JOpt(record.exit_code, "num")
      [] k = "run_id" -> JOpt(record.run_id, "str")
      [] k = "launcher_pid" -> JOpt(record.launcher_pid, "num")
      [] k = "adopted" -> JBool(record.adopted)
      [] OTHER -> JBool(record.uses_pty)

\* A save that leaves the uses_pty key out of the document.
SaveDataWithoutPty(record) == [k \in PersistedFields \ {"uses_pty"} |-> FieldJson(record, k)]

\* json.dump(data) of _save_record: the dict written to meta.json.
SaveData(record) == [k \in PersistedFields |-> FieldJson(record, k)]

\* data.get(k): None when the key is missing or holds null.
GetOpt(data, k) ==
    IF k \in DOMAIN data /\ data[k] # JNull THEN Some(data[k][2]) ELSE None
\* data.get(k, default) for a key whose stored value is not null.
GetOr(data, k, default) == IF k \in DOMAIN data THEN data[k][2] ELSE default
\* bool(data.get(k, False))
GetBool(data, k) ==
    IF k \in DOMAIN data /\ data[k] # JNull
    THEN (IF data[k][1] = "bool" THEN data[k][2]
          ELSE IF data[k][1] = "num" THEN data[k][2] # 0
          ELSE IF data[k][1] = "str" THEN data[k][2] # ""
          ELSE TRUE)
    ELSE FALSE
\* list(data.get("command") or []) and dict(data.get("env_overrides") or {})
GetListOr(data, k) ==
    IF k \in DOMAIN data /\ data[k] # JNull THEN data[k][2] ELSE <<>>
GetDictOr(data, k) ==
    IF k \in DOMAIN data /\ data[k] # JNull THEN data[k][2] ELSE EmptyDict

\* ShellRecord(...) of _load_record from the parsed document `data` found in
\* the directory `shell_id`; `now` is time.time().
LoadData(data, shell_id, now) ==
    LET rid == GetOr(data, "id", shell_id) IN
    ShellRecord(rid,
                GetListOr(data, "command"),
                GetOpt(data, "label"),
                GetOr(data, "cwd", HOME_DIR),
                GetDictOr(data, "env_overrides"),
                GetOpt(data, "pid"),
                GetOr(data, "status", "unknown"),
                GetOr(data, "created_at", now),
                GetOr(data, "updated_at", now),
                GetBool(data, "autostart"),
                GetOr(data, "stdout_log", LogPath(rid, "stdout")),
                GetOr(data, "stderr_log", LogPath(rid, "stderr")),
                GetOpt(data, "exit_code"),
                GetOpt(data, "run_id"),
                GetOpt(data, "launcher_pid"),
                GetBool(data, "adopted"),
                GetBool(data, "uses_pty"))

\* ------------------------------------------------------------------- state
VARIABLES
    store,      \* metadata_dir: shell id -> the meta.json document
    logs,       \* the log files that exist (LogPath values)
    procs,      \* the OS process table: pid -> process
    pty,        \* self._pty: shell id -> PTYState
    fds,        \* master descriptors open in the supervising process
    mgr,        \* the Manager: run_id, launcher_pid, max_shells
    nextId,     \* shell ids generated so far
    nextPid,    \* pids handed out to launched processes so far
    boots,      \* restarts of the supervising program so far
    removed,    \* the shell ids remove_shell has returned for
    tty,        \* the pseudo-terminals behind the open master descriptors
    stale,      \* reader threads that have outlived their PTYState
    other,      \* the call in flight in a second Manager on the same directory
    tmp,        \* metadata_dir: shell id -> the meta.json.tmp file, if there is one
    saving,     \* the _save_record in progress in each Manager, write by write
    ret,        \* the latest call: what was called and what came back
    jobs        \* the job subsystem: jobs.json, the JobManager and its job threads

vars == <<store, logs, procs, pty, fds, mgr, nextId, nextPid, boots, removed, tty, stale, other, tmp, saving, ret, jobs>>

\* The job subsystem before the application module is imported: no
\* jobs.json, no JobManager.
NoJobs == [file |-> <<>>, loaded |-> FALSE, held |-> <<>>, next |-> 0, boot |-> 0]

Ids == 1..MaxIds

\* The Managers on one base directory: the host's (_manager()) and the distro
\* app's.  Each has a lock of its own.
Managers == {"host", "distro"}

\* No _save_record in progress.
NotSaving == [pc |-> "idle"]
Pids == 1..MaxPids


\* time.time(): a logical clock that advances with every id and pid handed out.
Now(w) == w.nextId + w.nextPid

\* ----------------------------------------------------------- OS processes
\* st: "free" (pid never used), "alive", "zombie" (terminated, wait status
\* not yet collected by its parent), "gone" (terminated and collected),
\* "untracked" (no record holds the pid any more: whatever becomes of the
\* process, no method of the Manager can observe it).
\* code: the wait status as _collect_exit_code decodes it (negative: signal).
\* child: the process is a child of the supervising process.
\* priv: the process runs under another uid (sudo): kill fails with EPERM.
\* killed: a SIGKILL was sent and has not yet taken effect.
\* owner: the shell id it was launched for, 0 for an unrelated process.
FreeProc == [st |-> "free", code |-> 0, child |-> FALSE, priv |-> FALSE, killed |-> FALSE, owner |-> 0]
GoneProc == [st |-> "gone", code |-> 0, child |-> FALSE, priv |-> FALSE, killed |-> FALSE, owner |-> 0]
UntrackedProc == [st |-> "untracked", code |-> 0, child |-> FALSE, priv |-> FALSE, killed |-> FALSE, owner |-> 0]

\* os.kill(pid, 0) succeeds or fails with EPERM: a zombie still has its pid.
KillProbeOk(ps, n) == n \in DOMAIN ps /\ ps[n].st \in {"alive", "zombie"}

_is_pid_alive(ps, pid) == IF ~Truthy(pid) THEN FALSE ELSE KillProbeOk(ps, pid[1])

\* os.waitpid(pid, WNOHANG) and the decoding of its status: the exit code
\* and the process table afterwards (a collected zombie is gone).
_collect_exit_code(ps, pid) ==
    IF ~Truthy(pid) THEN [code |-> None, procs |-> ps]
    ELSE IF pid[1] \in DOMAIN ps /\ ps[pid[1]].child /\ ps[pid[1]].st = "zombie"
    THEN [code |-> Some(ps[pid[1]].code), procs |-> [ps EXCEPT ![pid[1]] = GoneProc]]
    ELSE [code |-> None, procs |-> ps]

\* subprocess._cleanup(), run by every Popen(): collects the children that
\* terminated after their Popen object was dropped.
SubprocessCleanup(ps) == [n \in DOMAIN ps |-> IF ps[n].st = "zombie" /\ ps[n].child THEN GoneProc ELSE ps[n]]

\* os.kill(pid, sig): "ok", "ProcessLookupError" or "PermissionError".
KillResult(ps, n) ==
    IF ~KillProbeOk(ps, n) THEN "ProcessLookupError"
    ELSE IF ps[n].priv THEN "PermissionError"
    ELSE "ok"

\* The pids the persisted records hold: the processes a method of the
\* Manager can reach.
Tracked(st) == {n \in Pids : \E i \in DOMAIN st : GetOpt(st[i], "pid") = Some(n)}

\* The process table a call finds: processes whose pid no record holds any
\* more are not followed further.
Forget(st, ps) == [n \in DOMAIN ps |-> IF ps[n].st = "free" \/ n \in Tracked(st) THEN ps[n] ELSE UntrackedProc]

\* The part of the state the Manager's methods read and write, with what the
\* call in progress has done so far: the signals it delivered (sigs) and the
\* statuses it wrote to the store (saves), both empty when the call begins.
\* joined: the reader thread stops within the second _stop_pty waits for it.
World == [store |-> store, logs |-> logs, procs |-> Forget(store, procs), pty |-> pty, fds |-> fds, tty |-> tty, stale |-> stale, nextId |-> nextId, nextPid |-> nextPid, sigs |-> <<>>, saves |-> <<>>, joined |-> TRUE]

\* ------------------------------------------------------------ record store
HasRecord(w, shell_id) == shell_id \in DOMAIN w.store

_load_record(w, shell_id) == LoadData(w.store[shell_id], shell_id, Now(w))

_save_record(w, record) == [w EXCEPT !.store = (record.id :> SaveData(record)) @@ w.store, !.saves = Append(@, <<record.id, record.status>>)]

\* The record as _mark_exited leaves it in memory.
ExitedRecord(w, record, exit_code) == [record EXCEPT !.pid = None, !.status = "exited", !.exit_code = exit_code, !.updated_at = Now(w)]

_mark_exited(w, record, exit_code) == _save_record(w, ExitedRecord(w, record, exit_code))

_active_shell_count(w) == Cardinality({i \in DOMAIN w.store : _is_pid_alive(w.procs, _load_record(w, i).pid)})

\* _stop_pty: drop the PTY state, set its stop flag, wait up to a second for
\* the reader thread and close the master descriptor.  A reader that has not
\* left its loop when the wait ends runs on with the flag set.
_stop_pty(w, shell_id) ==
    IF shell_id \notin DOMAIN w.pty THEN w
    ELSE [w EXCEPT !.pty = [i \in DOMAIN w.pty \ {shell_id} |-> w.pty[i]],
                   !.fds = w.fds \ {w.pty[shell_id].master_fd},
                   !.tty = [k \in DOMAIN w.tty \ {w.pty[shell_id].master_fd} |-> w.tty[k]],
                   !.stale = IF ~w.joined /\ w.pty[shell_id].reader.pc # "exited"
                             THEN @ \cup {[id |-> shell_id, master_fd |-> w.pty[shell_id].master_fd]}
                             ELSE @]

\* One record of sweep(): a record with a pid that is not alive is marked exited.
SweepOne(w, shell_id) ==
    Once({IF Truthy(record.pid) /\ ~_is_pid_alive(w.procs, record.pid)
          THEN Once({_mark_exited([w EXCEPT !.procs = c.procs], record, PyOr(record.exit_code, c.code)) :
                     c \in {_collect_exit_code(w.procs, record.pid)}})
          ELSE w :
          record \in {_load_record(w, shell_id)}})

RECURSIVE SweepFrom(_, _)
SweepFrom(w, todo) ==
    IF todo = {} THEN w
    ELSE LET i == CHOOSE x \in todo : \A y \in todo : x <= y IN
         Once({SweepFrom(w1, todo \ {i}) : w1 \in {SweepOne(w, i)}})

\* A sweep that reconciles nothing.
SweepSkipped(w) == w

sweep(w) == SweepFrom(w, DOMAIN w.store)

\* What a Manager method hands back: the world it leaves, "ok" or the
\* exception it raised, and the record it returned (None when it returns none).
Result(w, err, rec) == [w |-> w, err |-> err, rec |-> rec]

\* A lookup that treats a missing record as nothing to do.
MissingIgnored(w) == Result(w, "ok", None)

\* raise KeyError("Shell not found"): nothing was touched.
Missing(w) == Result(w, "KeyError", None)

\* ---------------------------------------------------------------- launcher
\* A spawn request: the arguments of spawn_shell / spawn_shell_pty.
ReqSleep == [command |-> <<"sleep", "5">>, cwd |-> None, env |-> EmptyDict, label |-> None, autostart |-> FALSE]
ReqSudo == [command |-> <<"sudo", "chroot-distro", "login">>, cwd |-> Some(WorkDir), env |-> ("TOKEN" :> "s3cret"), label |-> Some("distro"), autostart |-> TRUE]
ReqShell == [command |-> <<"bash", "-l">>, cwd |-> None, env |-> EmptyDict, label |-> Some("terminal-app"), autostart |-> TRUE]
ReqEmpty == [ReqSleep EXCEPT !.command = <<>>]
ReqOutside == [ReqSleep EXCEPT !.cwd = Some(OutsideDir)]
\* A cwd next to the home directory whose name starts with the home's name.
ReqSibling == [ReqSleep EXCEPT !.cwd = Some(SiblingDir)]
\* What the callers pass: to spawn_shell (the distro app, the downloader)
\* and to spawn_shell_pty (the terminal app).
Requests == {ReqSleep, ReqSudo, ReqEmpty, ReqOutside}
PtyRequests == {ReqShell, ReqEmpty, ReqOutside}

\* _normalize_command: the argument vector must not be empty.
CommandOk(command) == Len(command) > 0

\* _resolve_cwd: the resolved path, and whether str(target).startswith(str(HOME_DIR)).
ResolvedCwd(cwd) == IF cwd = None THEN HOME_DIR ELSE cwd[1]
CwdOk(cwd) == StartsWith(ResolvedCwd(cwd), HOME_DIR)

\* _create_record: the pending record of a validated request.
_create_record(w, m, req, uses_pty) ==
    LET shell_id == w.nextId + 1
        ov1 == IF TruthyStr(m.run_id) THEN SetDefault(req.env, "TE_RUN_ID", m.run_id[1]) ELSE req.env
        overrides == SetDefault(ov1, "TE_SPAWNED_BY", "framework_shell_manager")
    IN ShellRecord(shell_id, req.command, req.label, ResolvedCwd(req.cwd), overrides, None, "pending", Now(w), Now(w), req.autostart, LogPath(shell_id, "stdout"), LogPath(shell_id, "stderr"), None, m.run_id, Some(m.launcher_pid), FALSE, uses_pty)

\* The process subprocess.Popen creates for a record: a child of the
\* supervising process; a sudo command runs under another uid.
NewProc(record) == [st |-> "alive", code |-> 0, child |-> TRUE, priv |-> (record.command[1] = "sudo"), killed |-> FALSE, owner |-> record.id]

\* The part of both launchers after Popen returned: pid, status, save.
Launched(w, record) ==
    LET n == w.nextPid + 1
        w1 == [w EXCEPT !.nextPid = n, !.procs = (n :> NewProc(record)) @@ w.procs]
    IN Once({Result(_save_record(w1, rec), "ok", Some(rec)) :
             rec \in {[record EXCEPT !.pid = Some(n), !.status = "running", !.exit_code = None, !.updated_at = Now(w1)]}})

\* A headless launch that saves the record as running before Popen is tried.
LaunchSavesFirst(w, record0, os_ok) ==
    LET record == [record0 EXCEPT !.uses_pty = FALSE, !.status = "running"]
        w1 == _save_record([w EXCEPT !.logs = w.logs \cup {record.stdout_log, record.stderr_log},
                                     !.procs = SubprocessCleanup(w.procs)], record)
    IN IF ~os_ok THEN Result(w1, "OSError", None) ELSE Launched(w1, record)

\* _launch (headless): the log files are opened for append, Popen runs
\* (os_ok: the OS could create the process), the record is saved running.
_launch(w, record0, os_ok) ==
    LET record == [record0 EXCEPT !.uses_pty = FALSE]
        w1 == [w EXCEPT !.logs = w.logs \cup {record.stdout_log, record.stderr_log},
                        !.procs = SubprocessCleanup(w.procs)]
    IN IF ~os_ok THEN Result(w1, "OSError", None) ELSE Launched(w1, record)

\* pty.openpty(): the lowest descriptor number not open.
LowestFree(open) == CHOOSE n \in 1..(Cardinality(open) + 1) : n \notin open /\ \A k \in 1..(n - 1) : k \in open

PTYState(master_fd) == [master_fd |-> master_fd, subscribers |-> <<>>, queues |-> 0, stop |-> FALSE, reader |-> [pc |-> "select", data |-> <<>>], chunks |-> <<>>]

\* The pseudo-terminal pty.openpty() creates: what was written to the master
\* and not yet read by the process (inp), what the process wrote and the
\* master has not yet read (out), how many writes the master took, and the
\* process that holds the slave end (0: none).
Tty(pid) == [inp |-> <<>>, out |-> <<>>, written |-> 0, pid |-> pid]

\* _launch_pty (interactive): a pseudo-terminal pair is opened, the log
\* files are touched, Popen runs on the slave (closed afterwards either
\* way), the record is saved running and the PTY state is stored.
_launch_pty(w, record0, os_ok) ==
    LET record == [record0 EXCEPT !.uses_pty = TRUE]
        master_fd == LowestFree(w.fds)
        w1 == [w EXCEPT !.fds = w.fds \cup {master_fd},
                        !.tty = (master_fd :> Tty(0)) @@ w.tty,
                        !.logs = w.logs \cup {record.stdout_log, record.stderr_log},
                        !.procs = SubprocessCleanup(w.procs)]
    IN IF ~os_ok THEN Result(w1, "OSError", None)
       ELSE Once({Result([r.w EXCEPT !.pty = (record.id :> PTYState(master_fd)) @@ r.w.pty,
                                     !.tty = (master_fd :> Tty(r.rec[1].pid[1])) @@ r.w.tty], "ok", r.rec) :
                  r \in {Launched(w1, record)}})

\* A capacity check that lets one shell too many through.
AtCapacityOffByOne(w, m) == m.max_shells # 0 /\ _active_shell_count(w) > m.max_shells

\* if self.max_shells and self._active_shell_count() >= self.max_shells
AtCapacity(w, m) == m.max_shells # 0 /\ _active_shell_count(w) >= m.max_shells

\* spawn_shell / spawn_shell_pty: sweep, capacity check, create, launch.
SpawnWith(w, m, req, uses_pty, os_ok) ==
    Once({IF AtCapacity(w1, m)
          THEN Result(w1, "RuntimeError", None)
          ELSE IF ~CommandOk(req.command) \/ ~CwdOk(req.cwd)
          THEN Result(w1, "ValueError", None)
          ELSE Once({IF uses_pty THEN _launch_pty(w2, record, os_ok) ELSE _launch(w2, record, os_ok) :
                     record \in {_create_record(w1, m, req, uses_pty)},
                     w2 \in {[w1 EXCEPT !.nextId = w1.nextId + 1]}}) :
          w1 \in {sweep(w)}})

spawn_shell(w, m, req, os_ok) == SpawnWith(w, m, req, FALSE, os_ok)

spawn_shell_pty(w, m, req, os_ok) == SpawnWith(w, m, req, TRUE, os_ok)

\* ---------------------------------------------------- lifecycle controller
\* What the signalled process does while terminate_shell runs:
\*   "vanish"        it terminates and is collected between the liveness
\*                   probe and os.kill (os.kill raises ProcessLookupError)
\*   "term"          it dies of SIGTERM while terminate polls
\*   "term0"         it handles SIGTERM and exits with status 0
\*   "term_cleaned"  it dies of SIGTERM and another thread's Popen() collects it
\*   "kill"          it ignores SIGTERM; SIGKILL takes effect before waitpid
\*   "kill_pending"  it ignores SIGTERM; SIGKILL has not taken effect at waitpid
Reactions == {"vanish", "term", "term0", "term_cleaned", "kill", "kill_pending"}
ForceReactions == {"vanish", "kill", "kill_pending"}

\* The reactions that make a difference to terminate_shell(shell_id, force):
\* none when no process is signalled, no way of dying for a zombie.
RelevantReactions(w, shell_id, force) ==
    IF ~HasRecord(w, shell_id) THEN {"kill"}
    ELSE LET pid == LoadData(w.store[shell_id], shell_id, 0).pid IN
         IF ~Truthy(pid) \/ ~KillProbeOk(w.procs, pid[1]) THEN {"kill"}
         ELSE IF w.procs[pid[1]].priv \/ w.procs[pid[1]].st = "zombie" THEN {"vanish", "kill"}
         ELSE IF force THEN ForceReactions
         ELSE Reactions

\* The process terminates with wait status `code`: a child stays as a
\* zombie until collected, another process is collected by its own parent.
DieWith(ps, n, code) ==
    IF ps[n].st # "alive" THEN ps
    ELSE IF ps[n].child THEN [ps EXCEPT ![n].st = "zombie", ![n].code = code, ![n].killed = FALSE]
    ELSE [ps EXCEPT ![n] = GoneProc]

\* SIGKILL is queued for a process that has not yet acted on it.
MarkKilled(ps, n) == IF ps[n].st = "alive" THEN [ps EXCEPT ![n].killed = TRUE] ELSE ps

\* The end of every path of terminate_shell: mark exited, tear down the PTY.
Finish(w, shell_id, record, exit_code) ==
    Once({Result(_stop_pty(_save_record(w, exited), shell_id), "ok", Some(exited)) :
          exited \in {ExitedRecord(w, record, exit_code)}})

\* The polling loop of terminate_shell(force=False): the process table when
\* the loop ends.
Polled(ps, n, react) ==
    CASE react = "term" -> DieWith(ps, n, 0 - SIGTERM)
      [] react = "term0" -> DieWith(ps, n, 0)
      [] react = "term_cleaned" -> [ps EXCEPT ![n] = GoneProc]
      [] OTHER -> ps

\* The polling loop and the escalation to SIGKILL when the pid still
\* answers the liveness probe afterwards.
PollAndEscalate(ps, n, react) ==
    LET polled == Polled(ps, n, react)
    IN IF ~KillProbeOk(polled, n) THEN polled
       ELSE IF react = "kill" THEN DieWith(polled, n, 0 - SIGKILL)
       ELSE MarkKilled(polled, n)

\* The signals terminate_shell delivers to pid n, in order.
SignalsSent(ps, n, force, react) ==
    IF force THEN <<<<n, SIGKILL>>>>
    ELSE IF KillProbeOk(Polled(ps, n, react), n) THEN <<<<n, SIGTERM>>, <<n, SIGKILL>>>>
    ELSE <<<<n, SIGTERM>>>>

\* The first os.kill(SIGKILL) of terminate_shell(force=True).
ForceKill(ps, n, react) == IF react = "kill_pending" THEN MarkKilled(ps, n) ELSE DieWith(ps, n, 0 - SIGKILL)

terminate_shell(w, shell_id, force, react) ==
    IF ~HasRecord(w, shell_id) THEN Missing(w)
    ELSE Once({
        IF ~Truthy(record.pid) \/ ~_is_pid_alive(w.procs, record.pid)
        THEN LET c == _collect_exit_code(w.procs, record.pid) IN
             Finish([w EXCEPT !.procs = c.procs], shell_id, record, PyOr(record.exit_code, c.code))
        ELSE LET n == record.pid[1]
                 ps0 == IF react = "vanish" THEN [w.procs EXCEPT ![n] = GoneProc] ELSE w.procs
                 kr == KillResult(ps0, n)
             IN IF kr = "PermissionError" THEN Result(w, "PermissionError", None)
                ELSE IF kr = "ProcessLookupError"
                THEN LET c == _collect_exit_code(ps0, record.pid) IN
                     Finish([w EXCEPT !.procs = c.procs], shell_id, record, PyOr(record.exit_code, c.code))
                ELSE LET ps1 == IF force THEN ForceKill(ps0, n, react) ELSE PollAndEscalate(ps0, n, react)
                         c == _collect_exit_code(ps1, record.pid)
                     IN Finish([w EXCEPT !.procs = c.procs, !.sigs = @ \o SignalsSent(ps0, n, force, react)], shell_id, record, c.code) :
        record \in {_load_record(w, shell_id)}})

\* A relaunch that always takes the headless launcher.
RelaunchHeadless(w, record, os_ok) == _launch(w, record, os_ok)

\* A relaunch that starts a new pair of log files for the new process.
RelaunchFreshLogs(w, record, os_ok) ==
    LET fresh == [record EXCEPT !.stdout_log = LogPath(record.id, "stdout.1"), !.stderr_log = LogPath(record.id, "stderr.1")]
    IN IF record.uses_pty THEN _launch_pty(w, fresh, os_ok) ELSE _launch(w, fresh, os_ok)

\* The end of restart_shell: relaunch in the mode the record was using.
Relaunch(w, record, os_ok) == IF record.uses_pty THEN _launch_pty(w, record, os_ok) ELSE _launch(w, record, os_ok)

\* restart_shell: the record loaded before the forced terminate is the one
\* reset to pending, saved and relaunched in the mode it was using.
restart_shell(w, shell_id, react, os_ok) ==
    IF ~HasRecord(w, shell_id) THEN Missing(w)
    ELSE Once({
        IF t.err # "ok" THEN Result(t.w, t.err, None)
        ELSE Once({Relaunch(w1, pending, os_ok) :
                   w1 \in {_save_record(t.w, pending)}}) :
        t \in {terminate_shell(w, shell_id, TRUE, react)},
        pending \in {[_load_record(w, shell_id) EXCEPT !.created_at = Now(w), !.updated_at = Now(w), !.exit_code = None, !.status = "pending"]}})

\* A removal that deletes the metadata directory and forgets the logs.
DeleteMetadataOnly(w, record) == [w EXCEPT !.store = [i \in DOMAIN w.store \ {record.id} |-> w.store[i]]]

\* shutil.rmtree of the metadata directory, unlink of both log files.
DeleteFiles(w, record) ==
    [w EXCEPT !.store = [i \in DOMAIN w.store \ {record.id} |-> w.store[i]],
              !.logs = w.logs \ {record.stdout_log, record.stderr_log}]

\* remove_shell: terminate when alive, tear down the PTY, delete the
\* metadata directory and both log files.
remove_shell(w, shell_id, force, react) ==
    IF ~HasRecord(w, shell_id) THEN Missing(w)
    ELSE Once({
        IF t.err # "ok" THEN Result(t.w, t.err, None)
        ELSE Once({Result(DeleteFiles(w1, record), "ok", None) : w1 \in {_stop_pty(t.w, shell_id)}}) :
        record \in {_load_record(w, shell_id)},
        t \in {IF _is_pid_alive(w.procs, _load_record(w, shell_id).pid)
               THEN terminate_shell(w, shell_id, force, react)
               ELSE Result(w, "ok", None)}})

\* --------------------------------------------------------- orphan adoption
\* A re-stamp that updates run_id and launcher_pid without flagging the record.
RestampUnflagged(record, m) ==
    [record EXCEPT !.run_id = m.run_id, !.launcher_pid = Some(m.launcher_pid)]

\* The re-stamp of a record another run or another launcher left behind.
Restamp(record, m) ==
    [record EXCEPT !.run_id = m.run_id, !.launcher_pid = Some(m.launcher_pid), !.adopted = TRUE]

\* One record of _adopt_orphaned_shells.
AdoptOne(w, m, shell_id) ==
    Once({
        IF Truthy(record.pid) /\ ~_is_pid_alive(w.procs, record.pid)
        THEN LET c == _collect_exit_code(w.procs, record.pid) IN
             _mark_exited([w EXCEPT !.procs = c.procs], record, PyOr(record.exit_code, c.code))
        ELSE IF ~TruthyStr(m.run_id) THEN w
        ELSE LET stale_run == ~TruthyStr(record.run_id) \/ record.run_id # m.run_id
                 stale_launcher == record.launcher_pid # Some(m.launcher_pid)
             IN IF stale_run \/ stale_launcher THEN _save_record(w, Restamp(record, m)) ELSE w :
        record \in {_load_record(w, shell_id)}})

RECURSIVE AdoptFrom(_, _, _)
AdoptFrom(w, m, todo) ==
    IF todo = {} THEN w
    ELSE LET i == CHOOSE x \in todo : \A y \in todo : x <= y IN
         Once({AdoptFrom(w1, m, todo \ {i}) : w1 \in {AdoptOne(w, m, i)}})

_adopt_orphaned_shells(w, m) == AdoptFrom(w, m, DOMAIN w.store)

\* FrameworkShellManager.__init__: max_shells defaults to DEFAULT_MAX_SHELLS;
\* auth_token is the argument or, when that is None or "", the environment's
\* TE_FRAMEWORK_SHELL_TOKEN, which is taken to be unset.
Manager(run_id, launcher_pid, max_shells, auth_token) ==
    [run_id |-> run_id, launcher_pid |-> launcher_pid, max_shells |-> IF max_shells = None THEN DEFAULT_MAX_SHELLS ELSE max_shells[1],
     auth_token |-> IF TruthyStr(auth_token) THEN auth_token ELSE None]

\* ------------------------------------------------------------------ actions
LauncherPid(b) == 1000 + b

\* ret: the call, the exception it raised ("ok": none), the record it
\* returned and, for list, the id a successful spawn returned right before it.
Call(op, shell_id, force, r) ==
    [op |-> op, id |-> shell_id, force |-> force, err |-> r.err, rec |-> r.rec,
     signals |-> r.w.sigs, saves |-> r.w.saves,
     after |-> IF op = "list" /\ ret.op \in {"spawn", "spawn_pty"} /\ ret.err = "ok" THEN ret.id ELSE 0]

\* The record persisted for shell_id, as Optional.
Persisted(w, shell_id) == IF HasRecord(w, shell_id) THEN Some(_load_record(w, shell_id)) ELSE None

\* get_shell: sweep, then the record or None.
get_shell(w, shell_id) == Once({Result(w1, "ok", Persisted(w1, shell_id)) : w1 \in {sweep(w)}})

\* list_shells: sweep, then every record (here: keyed by directory name).
list_shells(w) == Once({Result(w1, "ok", Some([i \in DOMAIN w1.store |-> _load_record(w1, i)])) : w1 \in {sweep(w)}})

Apply(w) ==
    /\ store' = w.store
    /\ logs' = w.logs
    /\ procs' = w.procs
    /\ pty' = w.pty
    /\ fds' = w.fds
    /\ tty' = w.tty
    /\ stale' = w.stale
    /\ nextId' = w.nextId
    /\ nextPid' = w.nextPid

WithinBounds(w) == w.nextId <= MaxIds /\ w.nextPid <= MaxPids /\ Cardinality(w.fds) <= MaxFds

Init ==
    /\ store = <<>>
    /\ logs = {}
    /\ procs = [n \in Pids |-> FreeProc]
    /\ pty = <<>>
    /\ fds = {}
    /\ tty = <<>>
    /\ stale = {}
    /\ other = None
    /\ tmp = <<>>
    /\ saving = [m \in Managers |-> NotSaving]
    /\ jobs = NoJobs
    /\ mgr = Manager(Some("run_a"), LauncherPid(0), Some(ConfiguredMaxShells), None)
    /\ nextId = 0
    /\ nextPid = 0
    /\ boots = 0
    /\ removed = {}
    /\ ret = [op |-> "construct", id |-> 0, force |-> FALSE, err |-> "ok", rec |-> None, after |-> 0]

Spawn(req, os_ok) ==
    \E w0 \in {World} : \E r \in {spawn_shell(w0, mgr, req, os_ok)} :
    /\ WithinBounds(r.w)
    /\ r.err \in {"RuntimeError", "ValueError"} => os_ok
    /\ Apply(r.w)
    /\ ret' = Call("spawn", r.w.nextId, FALSE, r)
    /\ UNCHANGED <<mgr, boots, removed, other, tmp, saving, jobs>>

SpawnPty(req, os_ok) ==
    \E w0 \in {World} : \E r \in {spawn_shell_pty(w0, mgr, req, os_ok)} :
    /\ WithinBounds(r.w)
    /\ r.err \in {"RuntimeError", "ValueError"} => os_ok
    /\ Apply(r.w)
    /\ ret' = Call("spawn_pty", r.w.nextId, FALSE, r)
    /\ UNCHANGED <<mgr, boots, removed, other, tmp, saving, jobs>>

List ==
    \E w0 \in {World} : \E r \in {list_shells(w0)} :
    /\ Apply(r.w)
    /\ ret' = Call("list", 0, FALSE, r)
    /\ UNCHANGED <<mgr, boots, removed, other, tmp, saving, jobs>>

Get(shell_id) ==
    \E w0 \in {World} : \E r \in {get_shell(w0, shell_id)} :
    /\ Apply(r.w)
    /\ ret' = Call("get", shell_id, FALSE, r)
    /\ UNCHANGED <<mgr, boots, removed, other, tmp, saving, jobs>>

Terminate(shell_id, force, react) ==
    \E w0 \in {World} : \E r \in {terminate_shell(w0, shell_id, force, react)} :
    /\ Apply(r.w)
    /\ ret' = Call("terminate", shell_id, force, r)
    /\ UNCHANGED <<mgr, boots, removed, other, tmp, saving, jobs>>

Restart(shell_id, react, os_ok) ==
    \E w0 \in {World} : \E r \in {restart_shell(w0, shell_id, react, os_ok)} :
    /\ WithinBounds(r.w)
    /\ r.err \in {"KeyError", "PermissionError"} => os_ok
    /\ Apply(r.w)
    /\ ret' = Call("restart", shell_id, TRUE, r)
    /\ UNCHANGED <<mgr, boots, removed, other, tmp, saving, jobs>>

Remove(shell_id, force, react) ==
    \E w0 \in {World} : \E r \in {remove_shell(w0, shell_id, force, react)} :
    /\ Apply(r.w)
    /\ ret' = Call("remove", shell_id, force, r)
    /\ removed' = IF r.err = "ok" THEN removed \cup {shell_id} ELSE removed
    /\ UNCHANGED <<mgr, boots, other, tmp, saving, jobs>>

\* The supervising program is restarted: a new process constructs a new
\* Manager on the same base directory.  The old process's children are
\* re-parented (its zombies are collected by init), its descriptors and PTY
\* state are gone; __init__ ends with _adopt_orphaned_shells.
Orphaned(ps) == [n \in DOMAIN ps |-> IF ps[n].st = "zombie" THEN GoneProc ELSE [ps[n] EXCEPT !.child = FALSE]]

ManagerRestart(run_id) ==
    \E m \in {Manager(run_id, LauncherPid(boots + 1), Some(ConfiguredMaxShells), mgr.auth_token)} :
    \E w \in {_adopt_orphaned_shells([store |-> store, logs |-> logs, procs |-> Orphaned(procs), pty |-> <<>>, fds |-> {}, tty |-> <<>>, stale |-> {}, nextId |-> nextId, nextPid |-> nextPid, sigs |-> <<>>, saves |-> <<>>, joined |-> TRUE], m)} :
       /\ boots < MaxBoots
       /\ mgr' = m
       /\ boots' = boots + 1
       /\ Apply(w)
       /\ ret' = Call("construct", 0, FALSE, Result(w, "ok", None))
       /\ UNCHANGED <<removed, other, tmp, saving, jobs>>

\* ---------------------------------------------------------- the environment
\* A live process ends by itself (exit status 0 or 1) or, after a SIGKILL
\* was queued, of that signal.
ProcExit(n, code) ==
    /\ n \in Tracked(store)
    /\ procs[n].st = "alive"
    /\ procs' = DieWith(procs, n, IF procs[n].killed THEN 0 - SIGKILL ELSE code)
    /\ UNCHANGED <<store, logs, pty, fds, mgr, nextId, nextPid, boots, removed, tty, stale, other, tmp, saving, jobs, ret>>

\* Another thread of the supervising process creates a Popen (describe's
\* `ps` fallback, the apps' helpers): subprocess._cleanup() collects zombies.
PopenElsewhere ==
    /\ \E n \in Tracked(store) : procs[n].st = "zombie"
    /\ procs' = SubprocessCleanup(procs)
    /\ UNCHANGED <<store, logs, pty, fds, mgr, nextId, nextPid, boots, removed, tty, stale, other, tmp, saving, jobs, ret>>

\* The OS hands the number of a collected process to an unrelated process.
PidReuse(n) ==
    /\ n \in Tracked(store)
    /\ procs[n].st = "gone"
    /\ procs' = [procs EXCEPT ![n] = [st |-> "alive", code |-> 0, child |-> FALSE, priv |-> FALSE, killed |-> FALSE, owner |-> 0]]
    /\ UNCHANGED <<store, logs, pty, fds, mgr, nextId, nextPid, boots, removed, tty, stale, other, tmp, saving, jobs, ret>>

\* The running supervisor: the HTTP routes and the apps call the Manager
\* while the shells' processes live and die.  Process creation succeeds.
Next ==
    \/ \E req \in Requests : Spawn(req, TRUE)
    \/ \E req \in PtyRequests : SpawnPty(req, TRUE)
    \/ List
    \/ \E i \in Ids : Get(i)
    \/ \E i \in Ids, force \in BOOLEAN : \E react \in RelevantReactions(World, i, force) : Terminate(i, force, react)
    \/ \E i \in Ids : \E react \in RelevantReactions(World, i, TRUE) : Restart(i, react, TRUE)
    \/ \E i \in Ids, force \in BOOLEAN : \E react \in RelevantReactions(World, i, force) : Remove(i, force, react)
    \/ \E n \in Pids, code \in {0, 1} : ProcExit(n, code)
    \/ PopenElsewhere
    \/ \E n \in Pids : PidReuse(n)

Spec == Init /\ [][Next]_vars

\* The supervisor across a restart: shells are spawned, their processes live
\* and die, and a new supervising process constructs a new Manager on the
\* directory the old one left behind.  The host always has a run identity
\* (main.py generates one when TE_RUN_ID is unset): the one it inherited
\* ("run_a" again) or a new one ("run_b").
NextBoot ==
    \/ \E req \in {ReqSleep, ReqSudo} : Spawn(req, TRUE)
    \/ SpawnPty(ReqShell, TRUE)
    \/ List
    \/ \E i \in Ids, force \in BOOLEAN : \E react \in RelevantReactions(World, i, force) : Terminate(i, force, react)
    \/ \E rid \in {Some("run_a"), Some("run_b")} : ManagerRestart(rid)
    \/ \E n \in Pids, code \in {0, 1} : ProcExit(n, code)
    \/ PopenElsewhere
    \/ \E n \in Pids : PidReuse(n)

SpecBoot == Init /\ [][NextBoot]_vars

\* The supervisor when the OS may refuse to create a process (os_ok FALSE:
\* Popen raises OSError, for a missing binary, a removed cwd, no more
\* processes) and callers pass any cwd, a sibling of the home included.
NextLaunch ==
    \/ \E req \in {ReqSleep, ReqEmpty, ReqOutside, ReqSibling}, os_ok \in BOOLEAN : Spawn(req, os_ok)
    \/ \E req \in {ReqShell, ReqOutside}, os_ok \in BOOLEAN : SpawnPty(req, os_ok)
    \/ \E i \in Ids : \E react \in RelevantReactions(World, i, TRUE) : Terminate(i, TRUE, react)
    \/ \E i \in Ids, os_ok \in BOOLEAN : \E react \in RelevantReactions(World, i, TRUE) : Restart(i, react, os_ok)
    \/ \E n \in Pids, code \in {0, 1} : ProcExit(n, code)
    \/ PopenElsewhere

SpecLaunch == Init /\ [][NextLaunch]_vars

\* Every operation that loads and saves a record, across a change of the
\* supervising process: spawn, sweep (list), forced terminate, restart and
\* the adoption a new Manager runs.
NextRecordLife ==
    \/ Spawn(ReqSleep, TRUE)
    \/ SpawnPty(ReqShell, TRUE)
    \/ List
    \/ \E i \in Ids : \E react \in RelevantReactions(World, i, TRUE) : Terminate(i, TRUE, react)
    \/ \E i \in Ids : \E react \in RelevantReactions(World, i, TRUE) : Restart(i, react, TRUE)
    \/ ManagerRestart(Some("run_b"))
    \/ \E n \in Pids : ProcExit(n, 0)
    \/ PopenElsewhere

SpecRecordLife == Init /\ [][NextRecordLife]_vars

\* ------------------------------------------------------ interactive shells
\* A queue.Queue: h tells the objects apart (the n-th queue made for a PTY
\* state, counted in its field `queues`), items is what was put on it, since
\* is the number of chunks the reader had put on the queues when this one
\* was attached.
Queue(h, since) == [h |-> h, since |-> since, items |-> <<>>]

\* The chunks the reader thread of a PTY state has put on the queues so far:
\* all it has taken off the master, but the one it is holding.
Pushed(state) == IF state.reader.pc = "deliver" THEN SubSeq(state.chunks, 1, Len(state.chunks) - 1) ELSE state.chunks

\* subscribe_output: a new queue is appended to the subscribers of the PTY
\* state; the handle returned is the queue.
subscribe_output(w, shell_id) ==
    IF shell_id \notin DOMAIN w.pty THEN Result(w, "KeyError", None)
    ELSE LET h == w.pty[shell_id].queues + 1
         IN Result([w EXCEPT !.pty[shell_id].subscribers = Append(@, Queue(h, Len(Pushed(w.pty[shell_id])))),
                             !.pty[shell_id].queues = h], "ok", Some(h))

\* list.remove(q): the first element that is q goes; ValueError if none is.
ListRemove(seq, h) ==
    LET at == {j \in DOMAIN seq : seq[j].h = h}
    IN IF at = {} THEN seq
       ELSE LET j == CHOOSE x \in at : \A y \in at : x <= y
            IN SubSeq(seq, 1, j - 1) \o SubSeq(seq, j + 1, Len(seq))

\* An unsubscribe that drops the oldest subscriber, whatever the handle.
UnsubscribeOldest(w, shell_id, h) ==
    IF shell_id \notin DOMAIN w.pty THEN Result(w, "ok", None)
    ELSE Result([w EXCEPT !.pty[shell_id].subscribers = IF @ = <<>> THEN @ ELSE Tail(@)], "ok", None)

\* unsubscribe_output: nothing without PTY state, nothing for a queue that
\* is not subscribed.
unsubscribe_output(w, shell_id, h) ==
    IF shell_id \notin DOMAIN w.pty THEN Result(w, "ok", None)
    ELSE Result([w EXCEPT !.pty[shell_id].subscribers = ListRemove(@, h)], "ok", None)

\* write_to_pty: os.write on the master descriptor number the PTY state
\* holds; OSError when that number is not open.  The data written is the
\* serial number of the write on this pseudo-terminal.
write_to_pty(w, shell_id) ==
    IF shell_id \notin DOMAIN w.pty THEN Result(w, "KeyError", None)
    ELSE LET k == w.pty[shell_id].master_fd IN
         IF k \notin w.fds THEN Result(w, "OSError", None)
         ELSE Result([w EXCEPT !.tty[k].inp = Append(@, w.tty[k].written + 1),
                               !.tty[k].written = @ + 1], "ok", None)

Subscribe(shell_id) ==
    \E w0 \in {World} : \E r \in {subscribe_output(w0, shell_id)} :
    /\ shell_id \in DOMAIN pty => (Len(pty[shell_id].subscribers) < MaxSubs /\ pty[shell_id].queues < MaxQueues)
    /\ Apply(r.w)
    /\ ret' = Call("subscribe", shell_id, FALSE, r)
    /\ UNCHANGED <<mgr, boots, removed, other, tmp, saving, jobs>>

Unsubscribe(shell_id, h) ==
    \E w0 \in {World} : \E r \in {unsubscribe_output(w0, shell_id, h)} :
    /\ Apply(r.w)
    /\ ret' = Call("unsubscribe", shell_id, FALSE, r) @@ [k \in {"handle"} |-> h]
    /\ UNCHANGED <<mgr, boots, removed, other, tmp, saving, jobs>>

\* ret of a write also tells the data written and how many subscribers
\* were attached when it was written.
Write(shell_id) ==
    \E w0 \in {World} : \E r \in {write_to_pty(w0, shell_id)} :
    /\ (shell_id \in DOMAIN pty /\ pty[shell_id].master_fd \in fds) => tty[pty[shell_id].master_fd].written < MaxWrites
    /\ Apply(r.w)
    /\ ret' = Call("write", shell_id, FALSE, r) @@
               [k \in {"data", "subs"} |->
                   IF r.err # "ok" THEN 0
                   ELSE IF k = "data" THEN tty[pty[shell_id].master_fd].written + 1
                   ELSE Len(pty[shell_id].subscribers)]
    /\ UNCHANGED <<mgr, boots, removed, other, tmp, saving, jobs>>

\* The process on the slave end echoes what was written to the master.
ProcEcho(n) ==
    /\ procs[n].st = "alive"
    /\ \E k \in fds :
          /\ tty[k].pid = n
          /\ tty[k].inp # <<>>
          /\ tty' = [tty EXCEPT ![k].out = @ \o tty[k].inp, ![k].inp = <<>>]
    /\ UNCHANGED <<store, logs, procs, pty, fds, mgr, nextId, nextPid, boots, removed, stale, other, tmp, saving, jobs, ret>>

\* No process holds the slave end of the pseudo-terminal any more.
SlaveClosed(k) == tty[k].pid = 0 \/ procs[tty[k].pid].st # "alive"

\* The reader thread of _launch_pty, one step per action.  select and
\* os.read: the bytes waiting on the master descriptor become one chunk.
ReaderRead(shell_id) ==
    /\ shell_id \in DOMAIN pty
    /\ pty[shell_id].reader.pc = "select"
    /\ ~pty[shell_id].stop
    /\ \E k \in {pty[shell_id].master_fd} \cap fds :
          /\ tty[k].out # <<>>
          /\ pty' = [pty EXCEPT ![shell_id].reader = [pc |-> "log", data |-> tty[k].out]]
          /\ tty' = [tty EXCEPT ![k].out = <<>>]
    /\ UNCHANGED <<store, logs, procs, fds, mgr, nextId, nextPid, boots, removed, stale, other, tmp, saving, jobs, ret>>

\* A reader that puts the chunk on the queues without writing the log.
ReaderLogSkipped(shell_id, log_ok) ==
    /\ shell_id \in DOMAIN pty
    /\ pty[shell_id].reader.pc = "log"
    /\ pty' = [pty EXCEPT ![shell_id].reader.pc = "deliver"]
    /\ UNCHANGED <<store, logs, procs, fds, tty, stale, mgr, nextId, nextPid, boots, removed, other, tmp, saving, jobs, ret>>

\* log_fh.write and log_fh.flush: the chunk is appended to the stdout log,
\* or the write raises (no space left, I/O error) and the exception is
\* dropped.  chunks keeps what the thread has handled, in order, and
\* whether the log took it.
ReaderLog(shell_id, log_ok) ==
    /\ shell_id \in DOMAIN pty
    /\ pty[shell_id].reader.pc = "log"
    /\ pty' = [pty EXCEPT ![shell_id].chunks = Append(@, [data |-> pty[shell_id].reader.data, logged |-> log_ok]),
                          ![shell_id].reader.pc = "deliver"]
    /\ UNCHANGED <<store, logs, procs, fds, tty, stale, mgr, nextId, nextPid, boots, removed, other, tmp, saving, jobs, ret>>

\* The chunk is put on the queue of every subscriber of the moment.
ReaderDeliver(shell_id) ==
    /\ shell_id \in DOMAIN pty
    /\ pty[shell_id].reader.pc = "deliver"
    /\ pty' = [pty EXCEPT ![shell_id].subscribers = [j \in DOMAIN @ |-> [@[j] EXCEPT !.items = Append(@, pty[shell_id].reader.data)]],
                          ![shell_id].reader = [pc |-> "select", data |-> <<>>]]
    /\ UNCHANGED <<store, logs, procs, fds, tty, stale, mgr, nextId, nextPid, boots, removed, other, tmp, saving, jobs, ret>>

\* select or os.read raises OSError (the slave end is closed and nothing is
\* left to read, or the descriptor number is not open): the loop ends and
\* the thread closes the master descriptor number.
ReaderExit(shell_id) ==
    /\ shell_id \in DOMAIN pty
    /\ pty[shell_id].reader.pc = "select"
    /\ LET k == pty[shell_id].master_fd IN
          /\ k \notin fds \/ (k \in fds /\ SlaveClosed(k) /\ tty[k].out = <<>>)
          /\ fds' = fds \ {k}
          /\ tty' = [d \in DOMAIN tty \ {k} |-> tty[d]]
    /\ pty' = [pty EXCEPT ![shell_id].reader.pc = "exited"]
    /\ UNCHANGED <<store, logs, procs, mgr, nextId, nextPid, boots, removed, stale, other, tmp, saving, jobs, ret>>

\* The terminal app: interactive shells are opened, written to, listened
\* to and deleted while their processes echo, live and die.
NextPty ==
    \/ SpawnPty(ReqShell, TRUE)
    \/ \E i \in Ids : Subscribe(i)
    \/ \E i \in Ids : Write(i)
    \/ \E i \in Ids : \E react \in RelevantReactions(World, i, TRUE) : Remove(i, TRUE, react)
    \/ \E n \in Pids : ProcEcho(n)
    \/ \E i \in Ids : ReaderRead(i)
    \/ \E i \in Ids, log_ok \in BOOLEAN : ReaderLog(i, log_ok)
    \/ \E i \in Ids : ReaderDeliver(i)
    \/ \E i \in Ids : ReaderExit(i)
    \/ \E n \in Pids : ProcExit(n, 0)
    \/ PopenElsewhere

\* The reader threads are scheduled and the processes echo.
FairPty ==
    /\ \A i \in Ids : WF_vars(ReaderRead(i)) /\ WF_vars(\E log_ok \in BOOLEAN : ReaderLog(i, log_ok)) /\ WF_vars(ReaderDeliver(i)) /\ WF_vars(ReaderExit(i))
    /\ \A n \in Pids : WF_vars(ProcEcho(n))

SpecPty == Init /\ [][NextPty]_vars /\ FairPty

\* ---------------------------------------------------------- second Manager
\* The distro app builds a Manager of its own on the same base directory
\* (apps/distro/main.py:22), in the same process, with a lock of its own.
\* Its terminate_shell(shell_id, force=False) therefore runs in steps the
\* host Manager's calls can fall between: it loads the record and, when the
\* pid answers the probe, sends SIGTERM (begin); after polling it collects
\* the exit code and saves its copy of the record as exited (end).
OtherLoaded(w, shell_id) ==
    LET record == _load_record(w, shell_id)
    IN [id |-> shell_id, record |-> record, seen |-> w.store[shell_id],
        signalled |-> Truthy(record.pid) /\ _is_pid_alive(w.procs, record.pid)]

\* The rest of terminate_shell on the copy loaded at the beginning.
OtherFinish(w, call) ==
    LET record == call.record
        ps1 == IF call.signalled THEN PollAndEscalate(w.procs, record.pid[1], "term") ELSE w.procs
        c == _collect_exit_code(ps1, record.pid)
        exit_code == IF call.signalled THEN c.code ELSE PyOr(record.exit_code, c.code)
    IN Once({Result(_save_record([w EXCEPT !.procs = c.procs], exited), "ok", Some(exited)) :
             exited \in {ExitedRecord(w, record, exit_code)}})

OtherTerminateBegin(shell_id) ==
    \E w0 \in {World} :
    /\ other = None
    /\ HasRecord(w0, shell_id)
    /\ other' = Some(OtherLoaded(w0, shell_id))
    /\ UNCHANGED <<store, logs, procs, pty, fds, mgr, nextId, nextPid, boots, removed, tty, stale, tmp, saving, jobs, ret>>

OtherTerminateEnd ==
    /\ other # None
    /\ \E w0 \in {World} : \E r \in {OtherFinish(w0, other[1])} :
          /\ Apply(r.w)
          /\ ret' = Call("other_terminate", other[1].id, FALSE, r)
    /\ other' = None
    /\ UNCHANGED <<mgr, boots, removed, tmp, saving, jobs>>

\* The host Manager's calls and the distro Manager's terminate, interleaved.
NextTwoManagers ==
    \/ Spawn(ReqSleep, TRUE)
    \/ List
    \/ \E i \in Ids : \E react \in RelevantReactions(World, i, TRUE) : Terminate(i, TRUE, react)
    \/ \E i \in Ids : \E react \in RelevantReactions(World, i, TRUE) : Restart(i, react, TRUE)
    \/ \E i \in Ids : OtherTerminateBegin(i)
    \/ OtherTerminateEnd
    \/ \E n \in Pids : ProcExit(n, 0)
    \/ PopenElsewhere

SpecTwoManagers == Init /\ [][NextTwoManagers]_vars

\* ------------------------------------------------- save / load round trip
\* The records handed to _save_record: every field takes its ordinary and
\* its falsy values (empty command, empty label, exit code 0, no pid).
RoundTripRecords ==
    {ShellRecord(id, command, label, HOME_DIR, env, pid, status, 0, 1, autostart, LogPath(id, "stdout"), LogPath(id, "stderr"), exit_code, run_id, launcher_pid, adopted, uses_pty) :
        id \in Ids,
        command \in {<<>>, <<"sleep", "5">>},
        label \in {None, Some(""), Some("distro")},
        env \in {EmptyDict, ("TOKEN" :> "s3cret")},
        pid \in {None, Some(1)},
        status \in {"running", "exited"},
        autostart \in BOOLEAN,
        exit_code \in {None, Some(0), Some(0 - SIGKILL)},
        run_id \in {None, Some("run_a")},
        launcher_pid \in {None, Some(LauncherPid(0))},
        adopted \in BOOLEAN,
        uses_pty \in BOOLEAN}

\* _save_record(record) on an empty store, then _load_record(record.id).
SaveLoad(record) ==
    /\ store = <<>>
    /\ \E w0 \in {World} : \E w1 \in {_save_record(w0, record)} :
          /\ store' = w1.store
          /\ ret' = [op |-> "save_load", id |-> record.id, force |-> FALSE, err |-> "ok",
                     rec |-> Persisted(w1, record.id), after |-> 0, saved |-> record]
    /\ UNCHANGED <<logs, procs, pty, fds, mgr, nextId, nextPid, boots, removed, tty, stale, other, tmp, saving, jobs>>

NextRoundTrip == \E record \in RoundTripRecords : SaveLoad(record)

SpecRoundTrip == Init /\ [][NextRoundTrip]_vars

\* ------------------------------------------------------------------ log tail
\* A log file is the sequence of the lengths in bytes of its lines; every
\* line ends with one newline byte.  A piece of the file is a line, or what
\* is left of one: [line, skip, len] is line number `line` without its first
\* `skip` bytes, `len` bytes long.
LineLengths == {0, 1, 2047, 4095, 4096}
LogFiles == UNION {[1..k -> LineLengths] : k \in 2..MaxLines}

RECURSIVE LineStart(_, _)
\* The offset of the first byte of line j.
LineStart(f, j) == IF j = 1 THEN 0 ELSE LineStart(f, j - 1) + f[j - 1] + 1

\* path.stat().st_size
FileSize(f) == LineStart(f, Len(f)) + f[Len(f)] + 1

Piece(f, j, from) ==
    IF from <= LineStart(f, j) THEN [line |-> j, skip |-> 0, len |-> f[j]]
    ELSE [line |-> j, skip |-> from - LineStart(f, j), len |-> f[j] - (from - LineStart(f, j))]

\* data.splitlines() of the bytes from offset `from` to the end: the lines
\* whose newline lies at or after `from`, the first one possibly cut.
SplitLines(f, from) ==
    LET kept == {j \in 1..Len(f) : from <= LineStart(f, j) + f[j]}
        first == Len(f) - Cardinality(kept) + 1
    IN [i \in 1..Cardinality(kept) |-> Piece(f, first + i - 1, from)]

\* seq[-n:] for n > 0
PyLast(seq, n) == IF n >= Len(seq) THEN seq ELSE SubSeq(seq, Len(seq) - n + 1, Len(seq))

\* A tail that takes the first lines of the window instead of the last.
ReadLogHead(f, lines) ==
    IF lines <= 0 THEN <<>>
    ELSE LET all == SplitLines(f, FileSize(f) - (IF FileSize(f) < LOG_TAIL_BYTES THEN FileSize(f) ELSE LOG_TAIL_BYTES))
         IN SubSeq(all, 1, IF lines < Len(all) THEN lines ELSE Len(all))

\* _read_log_tail of an existing file.
_read_log_tail(f, lines) ==
    IF lines <= 0 THEN <<>>
    ELSE LET size == FileSize(f)
             to_read == IF size < LOG_TAIL_BYTES THEN size ELSE LOG_TAIL_BYTES
         IN PyLast(SplitLines(f, size - to_read), lines)

\* describe(record, include_logs=True, tail_lines=lines) reads the tail of a
\* log file holding the lines f.
ReadLogTail(f, lines) ==
    /\ ret.op = "construct"
    /\ ret' = [op |-> "read_log_tail", id |-> 0, force |-> FALSE, err |-> "ok", rec |-> None, after |-> 0,
               file |-> f, lines |-> lines, tail |-> _read_log_tail(f, lines)]
    /\ UNCHANGED <<store, logs, procs, pty, fds, mgr, nextId, nextPid, boots, removed, tty, stale, other, tmp, saving, jobs>>

NextLogTail == \E f \in LogFiles : \E lines \in 1..(Len(f) - 1) : ReadLogTail(f, lines)

SpecLogTail == Init /\ [][NextLogTail]_vars

\* ------------------------------------------------------------------ describe
\* The environment key names the records use, in the order sorted() gives
\* them (code points: "R" < "_" < "o", "E" < "O").
KeyOrder == <<"TERM", "TE_RUN_ID", "TE_SPAWNED_BY", "TOKEN">>

\* sorted(d.keys())
SortedKeys(d) == LET Held(k) == k \in DOMAIN d IN SelectSeq(KeyOrder, Held)

\* A projection that always carries the environment overrides.
PayloadWithEnv(record, include_env) ==
    [k \in (PersistedFields \ {"env_overrides"}) \cup {"env_keys"} |->
        IF k = "env_keys" THEN SortedKeys(record.env_overrides) ELSE record[k]]
    @@ [k \in {"env_overrides"} |-> record.env_overrides]

\* ShellRecord.to_payload: every field but env_overrides, and the sorted
\* key names; the overrides themselves only on request.
to_payload(record, include_env) ==
    [k \in (PersistedFields \ {"env_overrides"}) \cup {"env_keys"} |->
        IF k = "env_keys" THEN SortedKeys(record.env_overrides) ELSE record[k]]
    @@ [k \in (IF include_env THEN {"env_overrides"} ELSE {}) |-> record.env_overrides]

\* _process_stats: alive and uptime (the resource figures the OS reports
\* for a live pid are not followed).
_process_stats(w, record) ==
    IF Truthy(record.pid) /\ _is_pid_alive(w.procs, record.pid)
    THEN [alive |-> TRUE, uptime |-> Some(IF Now(w) > record.created_at THEN Now(w) - record.created_at ELSE 0)]
    ELSE [alive |-> FALSE, uptime |-> None]

\* describe(record): the projection and the process statistics.
describe(w, record) == to_payload(record, FALSE) @@ [k \in {"stats"} |-> _process_stats(w, record)]

\* The same record with every environment override holding the value v.
WithEnvValues(record, v) == [record EXCEPT !.env_overrides = [k \in DOMAIN record.env_overrides |-> v]]

EnvValues == {"s3cret", "hunter2", ""}

\* The records handed to describe: the persisted ones and records built
\* by hand with no, one and several overrides.
DescribeRecords ==
    {ShellRecord(id, <<"sleep", "5">>, label, HOME_DIR, env, pid, status, 0, 1, FALSE, LogPath(id, "stdout"), LogPath(id, "stderr"), exit_code, Some("run_a"), Some(LauncherPid(0)), FALSE, uses_pty) :
        id \in Ids,
        label \in {None, Some("distro")},
        env \in {EmptyDict, ("TOKEN" :> "s3cret"), ("TOKEN" :> "a") @@ ("TERM" :> "b") @@ ("TE_RUN_ID" :> "c")},
        pid \in {None, Some(1)},
        status \in {"running", "exited"},
        exit_code \in {None, Some(0)},
        uses_pty \in BOOLEAN}

\* describe() of a record and of its twin that differs in the values of
\* env_overrides only.
Describe(record, v) ==
    \E w0 \in {World} :
    /\ ret' = [op |-> "describe", id |-> record.id, force |-> FALSE, err |-> "ok", rec |-> Some(record), after |-> 0,
               twin |-> WithEnvValues(record, v),
               payload |-> describe(w0, record),
               twin_payload |-> describe(w0, WithEnvValues(record, v))]
    /\ UNCHANGED <<store, logs, procs, pty, fds, mgr, nextId, nextPid, boots, removed, tty, stale, other, tmp, saving, jobs>>

NextDescribe ==
    \/ Spawn(ReqSudo, TRUE)
    \/ \E n \in Pids : ProcExit(n, 0)
    \/ \E record \in DescribeRecords \cup {_load_record(World, i) : i \in DOMAIN store}, v \in EnvValues : Describe(record, v)

SpecDescribe == Init /\ [][NextDescribe]_vars

\* ================================================================ properties
\* The record stored under shell_id in the metadata store st.
RecordIn(st, shell_id) == LoadData(st[shell_id], shell_id, 0)

IsSpawn(r) == r.op \in {"spawn", "spawn_pty"}

\* ------------------------------------------- metadata files, write by write
\* _save_record as the system calls it makes: open(meta.json.tmp, "w"), which
\* creates the file or truncates the one that is there; one write of the
\* whole text when the file object is closed (the text of a record is shorter
\* than the file object's buffer); rename(meta.json.tmp, meta.json).  Every
\* Manager uses the same temporary name, and a lock of its own.
\*
\* A file holds a whole document or torn bytes: nothing at all, or the text
\* of one document followed by the rest of a longer one.  Torn bytes are kept
\* as the one key "torn" with their length.
TornFile(len) == [k \in {"torn"} |-> JNum(len)]
EmptyFile == TornFile(0)
IsTorn(file) == "torn" \in DOMAIN file

RECURSIVE Digits(_)
Digits(n) == IF n < 0 THEN 1 + Digits(0 - n) ELSE IF n < 10 THEN 1 ELSE 1 + Digits(n \div 10)

\* The length of the text json.dump writes for a value.
JsonLen(v) ==
    CASE v[1] = "null" -> 4
      [] v[1] = "bool" -> (IF v[2] THEN 4 ELSE 5)
      [] v[1] = "num" -> Digits(v[2])
      [] v[1] = "str" /\ v[2] = "exited" -> 8
      [] OTHER -> 9

\* The length of the text of a document, counting the fields whose text
\* changes from one save of a record to the next.
TextLen(data) == JsonLen(data.pid) + JsonLen(data.status) + JsonLen(data.exit_code) + JsonLen(data.adopted)

FileLen(file) == IF IsTorn(file) THEN file.torn[2] ELSE TextLen(file)

\* write() of the text of `data` at offset 0 of a file.
WriteAt0(file, data) == IF FileLen(file) <= TextLen(data) THEN data ELSE TornFile(FileLen(file))

\* _load_record: None when meta.json is missing or json.load raises.
LoadFile(files, shell_id, now) ==
    IF shell_id \notin DOMAIN files \/ IsTorn(files[shell_id]) THEN None
    ELSE Some(LoadData(files[shell_id], shell_id, now))

\* The records the Managers save: one shell, as launched, as adopted, and as
\* marked exited without and with an exit code.
StoreRecord(pid, status, exit_code, adopted) ==
    ShellRecord(1, <<"sleep", "5">>, None, HOME_DIR, EmptyDict, pid, status, 0, 1, FALSE, LogPath(1, "stdout"), LogPath(1, "stderr"), exit_code, Some("run_a"), Some(LauncherPid(0)), adopted, FALSE)

StoreRecords ==
    {StoreRecord(Some(1), "running", None, FALSE),
     StoreRecord(Some(1), "running", None, TRUE),
     StoreRecord(None, "exited", None, FALSE),
     StoreRecord(None, "exited", Some(0 - SIGKILL), FALSE)}

\* with tmp_path.open("w") as fh: the temporary file is created, or the one
\* another save is writing is truncated.
SaveOpen(m, record) ==
    /\ saving[m] = NotSaving
    /\ tmp' = (record.id :> EmptyFile) @@ tmp
    /\ saving' = [saving EXCEPT ![m] = [pc |-> "open", id |-> record.id, data |-> SaveData(record), at |-> "tmp"]]
    /\ UNCHANGED <<store, logs, procs, pty, fds, mgr, nextId, nextPid, boots, removed, tty, stale, other, ret, jobs>>

\* json.dump and the end of the with block: the text goes to the file the
\* descriptor refers to, wherever that file is by now.
SaveWrite(m) ==
    /\ saving[m].pc = "open"
    /\ LET s == saving[m] IN
          /\ tmp' = IF s.at = "tmp" THEN [tmp EXCEPT ![s.id] = WriteAt0(@, s.data)] ELSE tmp
          /\ store' = IF s.at = "meta" THEN [store EXCEPT ![s.id] = WriteAt0(@, s.data)] ELSE store
          /\ saving' = [saving EXCEPT ![m] = [pc |-> "written", id |-> s.id, data |-> s.data, at |-> "closed"]]
    /\ UNCHANGED <<logs, procs, pty, fds, mgr, nextId, nextPid, boots, removed, tty, stale, other, ret, jobs>>

\* Where an open descriptor of the temporary file of shell_id points after a
\* rename of that file over meta.json.
Renamed(s, shell_id) ==
    IF s.pc = "open" /\ s.id = shell_id
    THEN [s EXCEPT !.at = IF @ = "tmp" THEN "meta" ELSE "unlinked"]
    ELSE s

\* tmp_path.replace(meta_path): FileNotFoundError when another save has
\* renamed the temporary file away.
SaveReplace(m) ==
    /\ saving[m].pc = "written"
    /\ LET s == saving[m] IN
          IF s.id \in DOMAIN tmp
          THEN /\ store' = (s.id :> tmp[s.id]) @@ store
               /\ tmp' = [i \in DOMAIN tmp \ {s.id} |-> tmp[i]]
               /\ saving' = [q \in Managers |-> IF q = m THEN NotSaving ELSE Renamed(saving[q], s.id)]
               /\ ret' = [op |-> "save", id |-> s.id, force |-> FALSE, err |-> "ok", rec |-> None, after |-> 0]
          ELSE /\ saving' = [saving EXCEPT ![m] = NotSaving]
               /\ ret' = [op |-> "save", id |-> s.id, force |-> FALSE, err |-> "FileNotFoundError", rec |-> None, after |-> 0]
               /\ UNCHANGED <<store, tmp>>
    /\ UNCHANGED <<logs, procs, pty, fds, mgr, nextId, nextPid, boots, removed, tty, stale, other, jobs>>

\* _load_record(shell_id) in any Manager; `file` is what meta.json held.
Load(shell_id) ==
    /\ ret' = [op |-> "load", id |-> shell_id, force |-> FALSE, err |-> "ok",
               rec |-> LoadFile(store, shell_id, 0), after |-> 0,
               file |-> IF shell_id \in DOMAIN store THEN Some(store[shell_id]) ELSE None]
    /\ UNCHANGED <<store, logs, procs, pty, fds, mgr, nextId, nextPid, boots, removed, tty, stale, other, tmp, saving, jobs>>

\* Two Managers save records of one shell while the record is loaded.
NextStore ==
    \/ \E m \in Managers, record \in StoreRecords : SaveOpen(m, record)
    \/ \E m \in Managers : SaveWrite(m)
    \/ \E m \in Managers : SaveReplace(m)
    \/ Load(1)

SpecStore == Init /\ [][NextStore]_vars

\* ---------------------------------------------------------- reader threads
\* The master descriptor of shell_id reports the hang-up: no process holds
\* the slave end and nothing is left to read, or the number is not open.
HangUp(shell_id) ==
    LET k == pty[shell_id].master_fd IN
    k \notin fds \/ (k \in fds /\ SlaveClosed(k) /\ tty[k].out = <<>>)

\* A reader thread is in its loop with the hang-up before it.
ReaderAtHangUp(shell_id) ==
    /\ shell_id \in DOMAIN pty
    /\ pty[shell_id].reader.pc \in {"select", "sleep"}
    /\ HangUp(shell_id)

\* os.read reports the hang-up as end of file, b"": `if not data:
\* time.sleep(0.05); continue`.
ReaderEmptyRead(shell_id) ==
    /\ shell_id \in DOMAIN pty
    /\ pty[shell_id].reader.pc = "select"
    /\ pty[shell_id].master_fd \in fds
    /\ HangUp(shell_id)
    /\ pty' = [pty EXCEPT ![shell_id].reader.pc = "sleep"]
    /\ UNCHANGED <<store, logs, procs, fds, tty, stale, mgr, nextId, nextPid, boots, removed, other, tmp, saving, jobs, ret>>

\* The sleep is over: back to the loop condition and select.
ReaderWake(shell_id) ==
    /\ shell_id \in DOMAIN pty
    /\ pty[shell_id].reader.pc = "sleep"
    /\ pty' = [pty EXCEPT ![shell_id].reader.pc = "select"]
    /\ UNCHANGED <<store, logs, procs, fds, tty, stale, mgr, nextId, nextPid, boots, removed, other, tmp, saving, jobs, ret>>

\* A reader whose PTY state was dropped finds the stop flag set, leaves the
\* loop and closes the master descriptor number it was started with.
StaleExit(t) ==
    /\ t \in stale
    /\ stale' = stale \ {t}
    /\ fds' = fds \ {t.master_fd}
    /\ tty' = [d \in DOMAIN tty \ {t.master_fd} |-> tty[d]]
    /\ UNCHANGED <<store, logs, procs, pty, mgr, nextId, nextPid, boots, removed, other, tmp, saving, jobs, ret>>

\* restart_shell of an interactive shell; joined: the old reader leaves its
\* loop within the second _stop_pty waits for it.
RestartPty(shell_id, react, joined) ==
    \E w0 \in {[World EXCEPT !.joined = joined]} : \E r \in {restart_shell(w0, shell_id, react, TRUE)} :
    /\ shell_id \in DOMAIN pty
    /\ WithinBounds(r.w)
    /\ Cardinality(r.w.stale) <= MaxStale
    /\ Apply(r.w)
    /\ ret' = Call("restart", shell_id, TRUE, r)
    /\ UNCHANGED <<mgr, boots, removed, other, tmp, saving, jobs>>

StaleReaders == [id : Ids, master_fd : 1..MaxFds]

\* Interactive shells are opened and restarted while their processes end.
NextReader ==
    \/ SpawnPty(ReqShell, TRUE)
    \/ \E i \in Ids, joined \in BOOLEAN : \E react \in RelevantReactions(World, i, TRUE) : RestartPty(i, react, joined)
    \/ \E i \in Ids : ReaderExit(i)
    \/ \E i \in Ids : ReaderEmptyRead(i)
    \/ \E i \in Ids : ReaderWake(i)
    \/ \E t \in StaleReaders : StaleExit(t)
    \/ \E n \in Pids : ProcExit(n, 0)
    \/ PopenElsewhere

\* Every reader thread is scheduled.
FairReader ==
    /\ \A i \in Ids : WF_vars(ReaderExit(i)) /\ WF_vars(ReaderEmptyRead(i)) /\ WF_vars(ReaderWake(i))
    /\ \A t \in StaleReaders : WF_vars(StaleExit(t))

SpecReader == Init /\ [][NextReader]_vars /\ FairReader

\* ------------------------------------------------------------- subscribers
\* The terminal app's WebSocket route subscribes when a client connects and
\* unsubscribes when it goes, while shells are opened, written to and
\* terminated; the ids asked for need not have PTY state.
NextSubscribe ==
    \/ SpawnPty(ReqShell, TRUE)
    \/ Spawn(ReqSleep, TRUE)
    \/ \E i \in Ids : Subscribe(i)
    \/ \E i \in Ids, h \in 1..MaxQueues : Unsubscribe(i, h)
    \/ \E i \in Ids : Write(i)
    \/ \E i \in Ids : \E react \in RelevantReactions(World, i, TRUE) : Terminate(i, TRUE, react)

SpecSubscribe == Init /\ [][NextSubscribe]_vars

\* -------------------------------------------------------- the polling loop
\* terminate_shell(shell_id, force=False, timeout) of a Manager (the distro
\* app's, or the host's for the routes' stop action) on a thread of its own,
\* one turn of its polling loop per step; manager tells whose lock the call
\* holds from its first statement to its return.  The clock counts the tenths of a
\* second since the deadline was computed; timeout is in the same unit.
Deadline(timeout) == IF timeout > 0 THEN timeout ELSE 0

\* A sleep during which no time passes.
SleepNoTime(clock) == clock

\* time.sleep(0.1)
Sleep(clock) == clock + 1

\* The call up to its first turn of the loop: load, probe, SIGTERM, deadline.
PollBegin(m, shell_id, timeout) ==
    \E w0 \in {World} :
    /\ other = None
    /\ HasRecord(w0, shell_id)
    /\ LET call == OtherLoaded(w0, shell_id)
           kr == IF call.signalled THEN KillResult(w0.procs, call.record.pid[1]) ELSE "ok"
       IN IF kr = "PermissionError"
          THEN /\ ret' = Call("terminate_polled", shell_id, FALSE, Result(w0, kr, None))
               /\ UNCHANGED other
          ELSE /\ other' = Some(call @@ [pc |-> IF call.signalled THEN "poll" ELSE "after", manager |-> m,
                                         timeout |-> timeout, deadline |-> Deadline(timeout), clock |-> 0])
               /\ UNCHANGED ret
    /\ UNCHANGED <<store, logs, procs, pty, fds, mgr, nextId, nextPid, boots, removed, tty, stale, tmp, saving, jobs>>

\* while time.time() < deadline: if not alive: break; time.sleep(0.1)
PollStep ==
    /\ other # None
    /\ other[1].pc = "poll"
    /\ LET call == other[1] IN
          other' = IF call.clock < call.deadline /\ _is_pid_alive(World.procs, call.record.pid)
                   THEN Some([call EXCEPT !.clock = Sleep(@)])
                   ELSE Some([call EXCEPT !.pc = "after"])
    /\ UNCHANGED <<store, logs, procs, pty, fds, mgr, nextId, nextPid, boots, removed, tty, stale, tmp, saving, jobs, ret>>

\* After the loop: SIGKILL if the pid still answers the probe, collect,
\* _mark_exited; the call returns and its lock is released.
PollFinish(w, call) ==
    LET record == call.record
        ps1 == IF call.signalled THEN PollAndEscalate(w.procs, record.pid[1], "kill") ELSE w.procs
        c == _collect_exit_code(ps1, record.pid)
        exit_code == IF call.signalled THEN c.code ELSE PyOr(record.exit_code, c.code)
    IN Once({Result(_save_record([w EXCEPT !.procs = c.procs], exited), "ok", Some(exited)) :
             exited \in {ExitedRecord(w, record, exit_code)}})

PollEnd ==
    /\ other # None
    /\ other[1].pc = "after"
    /\ \E w0 \in {World} : \E r \in {PollFinish(w0, other[1])} :
          /\ Apply(r.w)
          /\ ret' = Call("terminate_polled", other[1].id, FALSE, r) @@
                     [k \in {"timeout", "slept"} |-> IF k = "timeout" THEN other[1].timeout ELSE other[1].clock]
    /\ other' = None
    /\ UNCHANGED <<mgr, boots, removed, tmp, saving, jobs>>

\* Shells are stopped with a timeout while their processes obey SIGTERM,
\* sooner or later, or ignore it.
NextPoll ==
    \/ Spawn(ReqSleep, TRUE)
    \/ \E i \in Ids, timeout \in (0 - 1)..MaxTimeout : PollBegin("distro", i, timeout)
    \/ PollStep
    \/ PollEnd
    \/ \E n \in Pids : ProcExit(n, 0 - SIGTERM)
    \/ PopenElsewhere

\* The thread that runs the call is scheduled.
FairPoll == WF_vars(PollStep) /\ WF_vars(PollEnd)

SpecPoll == Init /\ [][NextPoll]_vars /\ FairPoll

\* ------------------------------------------------------- the Manager lock
\* A lock that makes nobody wait.
AcquireNoWait(m) == TRUE

\* `with self._lock` of a call made on another thread: the threading.RLock
\* of Manager m is free unless a call of m is inside its with block.
Acquire(m) == IF other = None THEN TRUE ELSE other[1].manager # m

\* Threads of the supervisor call the host Manager (mgr) while a
\* terminate_shell(force=False) of the host's or of the distro Manager polls.
NextLock ==
    \/ Acquire("host") /\ Spawn(ReqSleep, TRUE)
    \/ Acquire("host") /\ List
    \/ \E i \in Ids : Acquire("host") /\ Get(i)
    \/ \E i \in Ids : \E react \in RelevantReactions(World, i, TRUE) : Acquire("host") /\ Terminate(i, TRUE, react)
    \/ \E m \in Managers, i \in Ids, timeout \in 0..MaxTimeout : Acquire(m) /\ PollBegin(m, i, timeout)
    \/ PollStep
    \/ PollEnd
    \/ \E n \in Pids : ProcExit(n, 0 - SIGTERM)
    \/ PopenElsewhere

SpecLock == Init /\ [][NextLock]_vars /\ FairPoll

\* ---------------------------------------------------------- the HTTP routes
\* The framework_shells blueprint.  A request carries the X-Framework-Key
\* header (None: no such header) and its payload; the response is the status
\* code.  _manager() finds the Manager the application holds.
ConfiguredToken == "k1"
HeaderKeys == {None, Some("k1"), Some("k2")}

\* A check that lets a request without the header through.
AuthOnlyWhenKeyGiven(m, provided) ==
    IF ~TruthyStr(m.auth_token) THEN None
    ELSE IF provided = None \/ provided = m.auth_token THEN None
    ELSE Some("Forbidden: invalid framework shell token")

\* _check_mutation_auth: None when no token is configured or the header
\* equals it, the error text otherwise.
_check_mutation_auth(m, provided) ==
    IF ~TruthyStr(m.auth_token) THEN None
    ELSE IF provided = m.auth_token THEN None
    ELSE Some("Forbidden: invalid framework shell token")

\* The status of the response: the except clauses of the three routes, and
\* 400 for a payload the route itself turns down.
StatusOf(err, created) ==
    CASE err = "ok" -> IF created THEN 201 ELSE 200
      [] err = "KeyError" -> 404
      [] err = "BadRequest" -> 400
      [] err = "ValueError" -> IF created THEN 400 ELSE 500
      [] err = "RuntimeError" -> IF created THEN 409 ELSE 500
      [] OTHER -> 500

\* What a route leaves in ret: the request, the Manager call's outcome and
\* the response status.
Response(route, provided, shell_id, force, r, status) ==
    Call(route, shell_id, force, r) @@ [k \in {"key", "status"} |-> IF k = "key" THEN provided ELSE status]

Forbidden(route, provided, shell_id) ==
    /\ ret' = Response(route, provided, shell_id, FALSE, Result(World, "Forbidden", None), 403)
    /\ UNCHANGED <<store, logs, procs, pty, fds, tty, stale, nextId, nextPid, mgr, boots, removed, other, tmp, saving, jobs>>

\* POST /api/framework_shells.  A payload whose command is neither a string
\* nor a list of strings (command None here) is answered 400.
create_framework_shell(provided, payload) ==
    IF _check_mutation_auth(mgr, provided) # None THEN Forbidden("create", provided, 0)
    ELSE IF payload.command = None
    THEN /\ ret' = Response("create", provided, 0, FALSE, Result(World, "BadRequest", None), 400)
         /\ UNCHANGED <<store, logs, procs, pty, fds, tty, stale, nextId, nextPid, mgr, boots, removed, other, tmp, saving, jobs>>
    ELSE \E w0 \in {World} : \E r \in {spawn_shell(w0, mgr, [payload EXCEPT !.command = payload.command[1]], TRUE)} :
         /\ WithinBounds(r.w)
         /\ Apply(r.w)
         /\ ret' = Response("create", provided, r.w.nextId, FALSE, r, StatusOf(r.err, TRUE))
         /\ UNCHANGED <<mgr, boots, removed, other, tmp, saving, jobs>>

\* DELETE /api/framework_shells/<shell_id>?force=...
delete_framework_shell(provided, shell_id, force, react) ==
    IF _check_mutation_auth(mgr, provided) # None THEN Forbidden("delete", provided, shell_id)
    ELSE \E w0 \in {World} : \E r \in {remove_shell(w0, shell_id, force, react)} :
         /\ Apply(r.w)
         /\ ret' = Response("delete", provided, shell_id, force, r, StatusOf(r.err, FALSE))
         /\ removed' = IF r.err = "ok" THEN removed \cup {shell_id} ELSE removed
         /\ UNCHANGED <<mgr, boots, other, tmp, saving, jobs>>

\* The Manager calls of POST /api/framework_shells/<shell_id>/action: stop
\* and terminate, kill and force (terminate, then a removal whose exceptions
\* are dropped), restart.
ShellAction(w, shell_id, action, react) ==
    IF action \in {"stop", "terminate"} THEN terminate_shell(w, shell_id, FALSE, react)
    ELSE IF action \in {"kill", "force"}
    THEN Once({IF t.err # "ok" THEN t
               ELSE Once({Result(d.w, "ok", t.rec) :
                          d \in {remove_shell(t.w, shell_id, TRUE, react)}}) :
               t \in {terminate_shell(w, shell_id, TRUE, react)}})
    ELSE IF action = "restart" THEN restart_shell(w, shell_id, react, TRUE)
    ELSE Result(w, "BadRequest", None)

Actions == {"stop", "kill", "restart", ""}

framework_shell_action(provided, shell_id, action, react) ==
    IF _check_mutation_auth(mgr, provided) # None THEN Forbidden("action", provided, shell_id)
    ELSE \E w0 \in {World} : \E r \in {ShellAction(w0, shell_id, action, react)} :
         /\ WithinBounds(r.w)
         /\ Apply(r.w)
         /\ ret' = Response("action", provided, shell_id, action \in {"kill", "force", "restart"}, r, StatusOf(r.err, FALSE))
         /\ removed' = IF action \in {"kill", "force"} /\ r.err = "ok" /\ shell_id \notin DOMAIN r.w.store THEN removed \cup {shell_id} ELSE removed
         /\ UNCHANGED <<mgr, boots, other, tmp, saving, jobs>>

Payloads == {[ReqSleep EXCEPT !.command = Some(ReqSleep.command)], [ReqSleep EXCEPT !.command = Some(<<>>)], [ReqSleep EXCEPT !.command = None]}

\* The supervisor is started with TE_FRAMEWORK_SHELL_TOKEN set or not, and
\* clients with and without the key call the mutating routes.
InitRoutes ==
    \E token \in {None, Some(""), Some(ConfiguredToken)} :
       \E m \in {Manager(Some("run_a"), LauncherPid(0), Some(ConfiguredMaxShells), token)} :
          /\ store = <<>> /\ logs = {} /\ procs = [n \in Pids |-> FreeProc] /\ pty = <<>> /\ fds = {}
          /\ tty = <<>> /\ stale = {} /\ other = None /\ tmp = <<>> /\ saving = [x \in Managers |-> NotSaving] /\ jobs = NoJobs
          /\ mgr = m /\ nextId = 0 /\ nextPid = 0 /\ boots = 0 /\ removed = {}
          /\ ret = [op |-> "construct", id |-> 0, force |-> FALSE, err |-> "ok", rec |-> None, after |-> 0]

NextRoutes ==
    \/ \E key \in HeaderKeys, payload \in Payloads : create_framework_shell(key, payload)
    \/ \E key \in HeaderKeys, i \in Ids, force \in BOOLEAN : \E react \in RelevantReactions(World, i, force) : delete_framework_shell(key, i, force, react)
    \/ \E key \in HeaderKeys, i \in Ids, action \in Actions : \E react \in RelevantReactions(World, i, action # "stop") : framework_shell_action(key, i, action, react)
    \/ \E n \in Pids : ProcExit(n, 0)

SpecRoutes == InitRoutes /\ [][NextRoutes]_vars

\* ------------------------------------------------------------------ the jobs
\* app/jobs.py.  jobs.file is jobs.json (job id -> the stored dict; empty when
\* there is no file), jobs.held is JobManager._jobs once the module's
\* `manager = JobManager()` has run (jobs.loaded), jobs.next counts the ids
\* made, jobs.boot the restarts of the process.  A Job keeps its status,
\* error and finished_at, its _cancel_requested flag and, in pc, where the
\* thread running _run_job for it is: "spawned" (started, before
\* mark_running), "handler" (inside the handler), "done", or "none" for a
\* job that was loaded from the file and has no thread.
shellVars == <<store, logs, procs, pty, fds, mgr, nextId, nextPid, boots, removed, tty, stale, other, tmp, saving, ret>>

JobIds == 1..MaxJobs
InFlight == {"pending", "running"}
Finished == {"succeeded", "failed", "cancelled"}

\* time.time() in the process of boot number b.
JobNow(j) == j.boot + 1

\* A load that marks only the running jobs.
LoadFailsRunningOnly(j, record) ==
    IF record.status = "running"
    THEN [status |-> "failed", error |-> Some("Job interrupted by restart"), finished_at |-> Some(JobNow(j)), cancel |-> FALSE, pc |-> "none"]
    ELSE [status |-> record.status, error |-> record.error, finished_at |-> record.finished_at, cancel |-> FALSE, pc |-> "none"]

\* One record of _load_state: Job.from_state_dict, then the in-flight
\* statuses are replaced.
LoadedJob(j, record) ==
    IF record.status \in InFlight
    THEN [status |-> "failed", error |-> Some("Job interrupted by restart"), finished_at |-> Some(JobNow(j)), cancel |-> FALSE, pc |-> "none"]
    ELSE [status |-> record.status, error |-> record.error, finished_at |-> record.finished_at, cancel |-> FALSE, pc |-> "none"]

_load_state(j) == [id \in DOMAIN j.file |-> LoadedJob(j, j.file[id])]

\* Job.to_state_dict
to_state_dict(job) == [status |-> job.status, error |-> job.error, finished_at |-> job.finished_at]

mark_running(job) == [job EXCEPT !.status = "running"]
mark_succeeded(j, job) == [job EXCEPT !.status = "succeeded", !.finished_at = Some(JobNow(j))]
mark_failed(j, job, error) == [job EXCEPT !.status = "failed", !.error = Some(error), !.finished_at = Some(JobNow(j))]
mark_cancelled(j, job) == [job EXCEPT !.status = "cancelled", !.finished_at = Some(JobNow(j))]

\* manager = JobManager(): the module is imported by the starting process.
JobManagerInit ==
    /\ ~jobs.loaded
    /\ jobs' = [jobs EXCEPT !.loaded = TRUE, !.held = _load_state(jobs)]
    /\ UNCHANGED shellVars

\* create_job of a registered type: the job is held as pending and its
\* thread is started.
create_job ==
    /\ jobs.loaded
    /\ jobs.next < MaxJobs
    /\ jobs' = [jobs EXCEPT !.next = @ + 1,
                            !.held = ((jobs.next + 1) :> [status |-> "pending", error |-> None, finished_at |-> None, cancel |-> FALSE, pc |-> "spawned"]) @@ @]
    /\ UNCHANGED shellVars

\* _run_job up to the handler call: mark_running.
RunJobBegin(id) ==
    /\ id \in DOMAIN jobs.held
    /\ jobs.held[id].pc = "spawned"
    /\ jobs' = [jobs EXCEPT !.held[id] = [mark_running(@) EXCEPT !.pc = "handler"]]
    /\ UNCHANGED shellVars

\* The handler calls ctx.finish and runs on.
HandlerFinish(id) ==
    /\ id \in DOMAIN jobs.held
    /\ jobs.held[id].pc = "handler"
    /\ jobs' = [jobs EXCEPT !.held[id] = mark_succeeded(jobs, @)]
    /\ UNCHANGED shellVars

\* The handler calls ctx.check_cancelled with the flag set: JobCancelled is
\* raised and _run_job's except clause marks the job cancelled.
HandlerCancelled(id) ==
    /\ id \in DOMAIN jobs.held
    /\ jobs.held[id].pc = "handler"
    /\ jobs.held[id].cancel
    /\ jobs' = [jobs EXCEPT !.held[id] = [mark_cancelled(jobs, @) EXCEPT !.pc = "done"]]
    /\ UNCHANGED shellVars

\* The handler raises another exception: mark_failed.
HandlerRaises(id) ==
    /\ id \in DOMAIN jobs.held
    /\ jobs.held[id].pc = "handler"
    /\ jobs' = [jobs EXCEPT !.held[id] = [mark_failed(jobs, @, "Job failed") EXCEPT !.pc = "done"]]
    /\ UNCHANGED shellVars

\* The handler returns: mark_succeeded if the status is still running.
HandlerReturns(id) ==
    /\ id \in DOMAIN jobs.held
    /\ jobs.held[id].pc = "handler"
    /\ jobs' = [jobs EXCEPT !.held[id] = [(IF @.status = "running" THEN mark_succeeded(jobs, @) ELSE @) EXCEPT !.pc = "done"]]
    /\ UNCHANGED shellVars

\* cancel_job: request_cancel sets the flag, whatever the status.
cancel_job(id) ==
    /\ jobs.loaded
    /\ id \in DOMAIN jobs.held
    /\ jobs' = [jobs EXCEPT !.held[id].cancel = TRUE]
    /\ UNCHANGED shellVars

\* delete_job: a job that is neither running nor pending is forgotten.
delete_job(id) ==
    /\ jobs.loaded
    /\ id \in DOMAIN jobs.held
    /\ jobs.held[id].status \notin InFlight
    /\ jobs' = [jobs EXCEPT !.held = [k \in DOMAIN jobs.held \ {id} |-> jobs.held[k]]]
    /\ UNCHANGED shellVars

\* _save_state on one of the threads save_state_async has started: the
\* snapshot of the held jobs replaces jobs.json.
_save_state ==
    /\ jobs.loaded
    /\ jobs' = [jobs EXCEPT !.file = [id \in DOMAIN jobs.held |-> to_state_dict(jobs.held[id])]]
    /\ UNCHANGED shellVars

\* The process ends (with its job threads) and a new one starts.
JobsProcessRestart ==
    /\ jobs.loaded
    /\ jobs.boot < MaxJobBoots
    /\ jobs' = [jobs EXCEPT !.loaded = FALSE, !.held = <<>>, !.boot = @ + 1]
    /\ UNCHANGED shellVars

NextJobs ==
    \/ JobManagerInit
    \/ create_job
    \/ \E id \in JobIds : RunJobBegin(id)
    \/ \E id \in JobIds : HandlerFinish(id)
    \/ \E id \in JobIds : HandlerCancelled(id)
    \/ \E id \in JobIds : HandlerRaises(id)
    \/ \E id \in JobIds : HandlerReturns(id)
    \/ \E id \in JobIds : cancel_job(id)
    \/ \E id \in JobIds : delete_job(id)
    \/ _save_state
    \/ JobsProcessRestart

SpecJobs == Init /\ [][NextJobs]_vars

\* ---------------------------------------------------------------------- C1
\* C1 (as stated): after a successful spawn or interactive spawn that
\* returned id X, a list issued as the next call contains exactly one record
\* with id X, and that record has status running.
C1_ListAfterSpawnRunning ==
    (ret.op = "list" /\ ret.after # 0) =>
        /\ Cardinality({i \in DOMAIN ret.rec[1] : ret.rec[1][i].id = ret.after}) = 1
        /\ ret.after \in DOMAIN ret.rec[1]
        /\ ret.rec[1][ret.after].status = "running"

\* C1 (amended): the list issued as the next call after a successful spawn
\* that returned id X contains exactly one record with id X; the record is
\* running, with the pid the spawn stored, when that pid answers the liveness
\* probe of the list's sweep, and exited with no pid when the process has
\* terminated and been collected before the sweep.
C1_ListAfterSpawn ==
    [][(IsSpawn(ret) /\ ret.err = "ok" /\ ret'.op = "list") =>
         LET X == ret.id
             before == RecordIn(store, X)
             listed == ret'.rec[1]
         IN /\ ret'.after = X
            /\ Cardinality({i \in DOMAIN listed : listed[i].id = X}) = 1
            /\ X \in DOMAIN listed
            /\ listed[X] = RecordIn(store', X)
            /\ IF _is_pid_alive(procs, before.pid)
               THEN listed[X].status = "running" /\ listed[X].pid = before.pid
               ELSE listed[X].status = "exited" /\ listed[X].pid = None]_vars

\* A list right after a spawn shows the new shell running.
C1_Witness ==
    /\ ret.op = "list"
    /\ ret.after # 0
    /\ ret.after \in DOMAIN ret.rec[1]
    /\ ret.rec[1][ret.after].status = "running"

\* ---------------------------------------------------------------------- C2
\* C2: for every id that has a persisted record, terminate(id, force=true)
\* returns a record with status exited and pid null, and the same record is
\* what is persisted, whether or not the process reacts to or accepts the
\* signal.
C2_ForceTerminateExits ==
    (ret.op = "terminate" /\ ret.force /\ ret.err # "KeyError") =>
        /\ ret.err = "ok"
        /\ ret.rec # None
        /\ ret.rec[1].status = "exited"
        /\ ret.rec[1].pid = None
        /\ Persisted(World, ret.id) = ret.rec

\* ---------------------------------------------------------------------- C3
\* C3: a restart that returns leaves id, command, label and uses_pty of the
\* record unchanged; the record it returns (and persists) is running with
\* exit_code null and the pid of a process launched by this call for this
\* shell, not the previous pid; a PTY shell is relaunched on a PTY (PTY state
\* is held for it afterwards) and a headless shell headless.
C3_RestartPreserves ==
    [][(ret'.op = "restart" /\ ret'.err = "ok" /\ ret' # ret) =>
         LET old == RecordIn(store, ret'.id)
             new == ret'.rec[1]
         IN /\ new.id = old.id
            /\ new.command = old.command
            /\ new.label = old.label
            /\ new.uses_pty = old.uses_pty
            /\ new.status = "running"
            /\ new.exit_code = None
            /\ new.pid = Some(nextPid')
            /\ nextPid' = nextPid + 1
            /\ new.pid # old.pid
            /\ procs[nextPid'].st = "free"
            /\ procs'[nextPid'].st = "alive"
            /\ procs'[nextPid'].owner = new.id
            /\ RecordIn(store', ret'.id) = new
            /\ (new.id \in DOMAIN pty') = old.uses_pty]_vars

\* A PTY shell has been restarted.
C3_Witness ==
    /\ ret.op = "restart"
    /\ ret.err = "ok"
    /\ ret.rec[1].uses_pty
    /\ ret.rec[1].pid # None
    /\ ret.rec[1].pid[1] > 1

\* ---------------------------------------------------------------------- C4
\* C4: once remove(id) has returned, the metadata of id and both of its log
\* files do not exist, no PTY state is held for id, and get(id) returns
\* absent, in every later state.
C4_RemovedIsGone ==
    /\ (ret.op = "remove" /\ ret.err = "ok") => ret.id \in removed
    /\ \A i \in removed :
          /\ ~HasRecord(World, i)
          /\ LogPath(i, "stdout") \notin logs
          /\ LogPath(i, "stderr") \notin logs
          /\ i \notin DOMAIN pty
          /\ get_shell(World, i).rec = None
    /\ (ret.op = "get" /\ ret.id \in removed) => ret.rec = None

\* A get of a removed id has returned.
C4_Witness == ret.op = "get" /\ ret.id \in removed

\* ---------------------------------------------------------------------- C5
\* C5: terminate, restart and remove of an id that has no persisted record
\* (never created, or already removed) raise KeyError and leave the store,
\* the log files, the PTY state and every process as they were.
C5_MissingIdRaises ==
    /\ \A i \in Ids \ DOMAIN store : \A force \in BOOLEAN, react \in Reactions :
          /\ terminate_shell(World, i, force, react) = Result(World, "KeyError", None)
          /\ restart_shell(World, i, react, TRUE) = Result(World, "KeyError", None)
          /\ remove_shell(World, i, force, react) = Result(World, "KeyError", None)
    /\ (ret.op \in {"terminate", "restart", "remove"} /\ ret.id \notin DOMAIN store /\ ret.id \notin removed)
          => (ret.err = "KeyError" /\ ret.rec = None)
    /\ (ret.op \in {"terminate", "restart"} /\ ret.id \in removed)
          => (ret.err = "KeyError" /\ ret.rec = None)

\* remove has been called for an id that was already removed.
C5_Witness == ret.op = "remove" /\ ret.err = "KeyError" /\ ret.id \in removed

\* ---------------------------------------------------------------------- C6
\* C6: saving a record and then loading its id returns a record equal to the
\* saved one in every persisted field.
C6_SaveLoadRoundTrip ==
    (ret.op = "save_load") =>
        /\ ret.rec # None
        /\ \A k \in PersistedFields : ret.rec[1][k] = ret.saved[k]
        /\ DOMAIN ret.rec[1] = PersistedFields
        /\ Persisted(World, ret.id) = Some(ret.saved)

\* A record full of falsy values (empty command and label, exit code 0, no
\* pid, no run id) has been saved and loaded.
C6_Witness ==
    /\ ret.op = "save_load"
    /\ ret.saved.command = <<>>
    /\ ret.saved.label = Some("")
    /\ ret.saved.exit_code = Some(0)
    /\ ret.saved.pid = None
    /\ ret.saved.run_id = None
    /\ ret.saved.uses_pty
    /\ ret.rec = Some(ret.saved)

\* ---------------------------------------------------------------------- C7
\* C7: when a Manager is constructed, every persisted record that was
\* running with a pid answering the liveness probe and a run_id other than
\* the Manager's run identity has, after construction, adopted = true and
\* the Manager's run_id and is still running with the same pid; every
\* persisted record whose pid was set and did not answer the probe is exited
\* with pid null and the exit code it already had, if any (else null).
C7_AdoptionOnConstruction ==
    [][(boots' = boots + 1) =>
         \A i \in DOMAIN store :
            LET old == RecordIn(store, i)
                new == RecordIn(store', i)
                alive == _is_pid_alive(Orphaned(procs), old.pid)
            IN /\ i \in DOMAIN store'
               /\ (old.status = "running" /\ alive /\ old.run_id # mgr'.run_id)
                     => (new.adopted /\ new.run_id = mgr'.run_id /\ new.status = "running" /\ new.pid = old.pid)
               /\ (Truthy(old.pid) /\ ~alive)
                     => (new.status = "exited" /\ new.pid = None /\ new.exit_code = PyOr(old.exit_code, None))]_vars

\* A Manager of another run has adopted a running shell.
C7_Witness ==
    /\ boots > 0
    /\ \E i \in DOMAIN store :
          /\ RecordIn(store, i).adopted
          /\ RecordIn(store, i).status = "running"
          /\ RecordIn(store, i).run_id = mgr.run_id
          /\ RecordIn(store, i).run_id # Some("run_a")
          /\ _is_pid_alive(procs, RecordIn(store, i).pid)

\* ---------------------------------------------------------------------- C8
\* The last n lines of the file, whole.
LastLines(f, n) == [i \in 1..n |-> [line |-> Len(f) - n + i, skip |-> 0, len |-> f[Len(f) - n + i]]]

\* The bytes the last n lines take, newlines included.
TailBytes(f, n) == FileSize(f) - LineStart(f, Len(f) - n + 1)

\* C8 (as stated): for a log file of K lines and 0 < N < K, the tail with
\* tail_lines = N is exactly the last N lines of the file, whole and in file
\* order, whatever the line lengths and the file size.
C8_TailIsLastLines ==
    (ret.op = "read_log_tail") => ret.tail = LastLines(ret.file, ret.lines)

\* C8 (amended): for a log file of K lines and 0 < N < K, the tail with
\* tail_lines = N is exactly the last N lines of the file, whole and in file
\* order, if and only if those N lines, newlines included, take at most
\* LOG_TAIL_BYTES bytes.
C8_TailWithinBudget ==
    (ret.op = "read_log_tail") =>
        ((ret.tail = LastLines(ret.file, ret.lines)) <=> (TailBytes(ret.file, ret.lines) <= LOG_TAIL_BYTES))

\* The tail of a file larger than the byte budget was read and is whole.
C8_Witness ==
    /\ ret.op = "read_log_tail"
    /\ FileSize(ret.file) > LOG_TAIL_BYTES
    /\ ret.lines > 1
    /\ ret.tail = LastLines(ret.file, ret.lines)

\* ---------------------------------------------------------------------- C9
\* C9: when the records with a live process number at least the configured
\* maximum, spawn and interactive spawn raise RuntimeError (capacity), return
\* no record, launch no process, open no PTY, and leave the set of records
\* and the set of log files as they were; the records themselves are as the
\* opening sweep leaves them.
C9_CapacityFailure ==
    /\ (mgr.max_shells > 0 /\ _active_shell_count(World) >= mgr.max_shells) =>
          \A req \in Requests \cup PtyRequests, uses_pty \in BOOLEAN :
             LET r == SpawnWith(World, mgr, req, uses_pty, TRUE) IN
             /\ r.err = "RuntimeError"
             /\ r.rec = None
             /\ DOMAIN r.w.store = DOMAIN store
             /\ r.w.store = sweep(World).store
             /\ r.w.logs = logs
             /\ r.w.pty = pty
             /\ r.w.fds = fds
             /\ r.w.nextId = nextId
             /\ r.w.nextPid = nextPid
             /\ r.w.procs = sweep(World).procs
    /\ (IsSpawn(ret) /\ ret.err = "RuntimeError") => ret.rec = None

\* A spawn has been refused for capacity.
C9_Witness ==
    /\ IsSpawn(ret)
    /\ ret.err = "RuntimeError"
    /\ _active_shell_count(World) >= mgr.max_shells

\* --------------------------------------------------------------------- C10
\* The records whose own process is alive.
LiveShells == {i \in DOMAIN store : LET pid == RecordIn(store, i).pid IN
                  Truthy(pid) /\ procs[pid[1]].st = "alive" /\ procs[pid[1]].owner = i}

\* C10: with a configured ceiling max_shells > 0, the number of records
\* whose process is alive is at most max_shells in every reachable state.
C10_LiveWithinCeiling == mgr.max_shells > 0 => Cardinality(LiveShells) <= mgr.max_shells

\* --------------------------------------------------------------------- C11
\* C11: when the process of a running shell has ended by itself with exit
\* status c (it is a zombie of the supervising process, its wait status not
\* yet collected), the next sweep, run by list, get or spawn, leaves the
\* record with status exited, pid null and exit_code equal to c.
C11_SweepRecordsExitCode ==
    [][(ret'.op \in {"list", "get", "spawn", "spawn_pty"} /\ ret' # ret) =>
         \A i \in DOMAIN store :
            LET rec == RecordIn(store, i) IN
            (rec.status = "running" /\ Truthy(rec.pid) /\ procs[rec.pid[1]].st = "zombie" /\ procs[rec.pid[1]].owner = i) =>
                /\ i \in DOMAIN store'
                /\ RecordIn(store', i).status = "exited"
                /\ RecordIn(store', i).pid = None
                /\ RecordIn(store', i).exit_code = Some(procs[rec.pid[1]].code)]_vars

\* --------------------------------------------------------------------- C13
\* C13: in every persisted record, at every point where the store can be
\* read, pid is non-null if and only if status is running.
C13_PidIffRunning ==
    \A i \in DOMAIN store : (RecordIn(store, i).pid # None) <=> (RecordIn(store, i).status = "running")

\* --------------------------------------------------------------------- C14
\* The path is the home directory or a path below it.
UnderHome(p) == p = HOME_DIR \/ StartsWith(p, HOME_DIR \o <<"/">>)

\* C14: spawn and interactive spawn create a record only when the resolved
\* cwd is the home directory or a path below it: every persisted record, and
\* every record a spawn returned, has such a cwd; for any other cwd (a
\* sibling whose name starts with the home's name included) the call fails.
C14_CwdUnderHome ==
    /\ \A i \in DOMAIN store : UnderHome(RecordIn(store, i).cwd)
    /\ (IsSpawn(ret) /\ ret.err = "ok") => UnderHome(ret.rec[1].cwd)

\* --------------------------------------------------------------------- C15
\* C15: for every id, stdout_log and stderr_log of the persisted record are
\* the paths assigned when the record was created (the two log files named
\* after the id), after any sequence of spawn, sweep, terminate, restart and
\* adoption, each of them saving and loading the record; and no step changes
\* them.
C15_LogPathsFixed ==
    /\ \A i \in DOMAIN store :
          /\ RecordIn(store, i).stdout_log = LogPath(i, "stdout")
          /\ RecordIn(store, i).stderr_log = LogPath(i, "stderr")
    /\ (ret.rec # None /\ ret.op \in {"spawn", "spawn_pty", "terminate", "restart"}) =>
          /\ ret.rec[1].stdout_log = LogPath(ret.rec[1].id, "stdout")
          /\ ret.rec[1].stderr_log = LogPath(ret.rec[1].id, "stderr")

\* The first record (created at time 0) has been restarted (its created_at
\* was reset) and adopted by a new Manager, and is running.
C15_Witness ==
    \E i \in DOMAIN store :
       /\ i = 1
       /\ RecordIn(store, i).adopted
       /\ RecordIn(store, i).status = "running"
       /\ RecordIn(store, i).created_at > 0
       /\ boots > 0

\* --------------------------------------------------------------------- C16
\* C16: an entry for id exists in the Manager's in-memory PTY map only if
\* the persisted record of id has status running: once sweep, terminate or
\* remove has made the record exited or absent, no PTY state for id remains.
C16_PtyOnlyWhileRunning ==
    \A i \in DOMAIN pty : i \in DOMAIN store /\ RecordIn(store, i).status = "running"

\* --------------------------------------------------------------------- C17
\* C17: when spawn, interactive spawn or the relaunch of restart raises,
\* for a failed validation (ValueError) or because the OS could not create
\* the process (OSError), the call leaves no record of the attempt persisted
\* as running: a failed spawn adds no record at all, a failed restart leaves
\* its record with a status other than running, and no record that was not
\* running before the call is running after it.
C17_NoRunningAfterFailure ==
    [][(ret'.op \in {"spawn", "spawn_pty", "restart"} /\ ret'.err \in {"ValueError", "OSError"} /\ ret' # ret) =>
         /\ ret'.rec = None
         /\ IsSpawn(ret') => DOMAIN store' = DOMAIN store
         /\ (ret'.op = "restart") => RecordIn(store', ret'.id).status # "running"
         /\ \A i \in DOMAIN store' :
               (RecordIn(store', i).status = "running") => (i \in DOMAIN store /\ RecordIn(store, i).status = "running")]_vars

\* The relaunch of a restart has failed in the OS and the record is persisted.
C17_Witness ==
    /\ ret.op = "restart"
    /\ ret.err = "OSError"
    /\ ret.id \in DOMAIN store
    /\ RecordIn(store, ret.id).status = "pending"

\* --------------------------------------------------------------------- C18
\* C18: the output of describe() does not depend on the values of
\* env_overrides: a record and its twin that differs only in those values
\* (same keys) get the same output, which carries the sorted key names and
\* no entry for the overrides themselves.
C18_DescribeHidesEnvValues ==
    (ret.op = "describe") =>
        /\ ret.payload = ret.twin_payload
        /\ "env_overrides" \notin DOMAIN ret.payload
        /\ ret.payload.env_keys = SortedKeys(ret.rec[1].env_overrides)
        /\ {ret.payload.env_keys[j] : j \in 1..Len(ret.payload.env_keys)} = DOMAIN ret.rec[1].env_overrides

\* A running record holding a secret override has been described next to a
\* twin holding another value.
C18_Witness ==
    /\ ret.op = "describe"
    /\ "TOKEN" \in DOMAIN ret.rec[1].env_overrides
    /\ ret.rec[1].env_overrides["TOKEN"] = "s3cret"
    /\ ret.twin.env_overrides["TOKEN"] = "hunter2"
    /\ Len(ret.payload.env_keys) = 3
    /\ ret.payload.stats.alive

\* --------------------------------------------------------------------- C20
\* C20: every record that has status exited, because sweep, adoption or
\* terminate found its process dead, has a non-null exit_code.
C20_ExitedHasExitCode ==
    \A i \in DOMAIN store : (RecordIn(store, i).status = "exited") => (RecordIn(store, i).exit_code # None)

\* --------------------------------------------------------------------- C19
\* C19: operations on the same shell id are linearized: when an operation
\* saves the record, the persisted record is still the one that operation
\* loaded, so its save overwrites no change another operation made between
\* its load and its save (here: the terminate of the second Manager).
C19_NoLostUpdate ==
    [][(other # None /\ other' = None) =>
         /\ other[1].id \in DOMAIN store
         /\ store[other[1].id] = other[1].seen]_vars

\* --------------------------------------------------------------------- C12
\* The shell's record is running and its process is alive.
ShellRunning(i) ==
    /\ i \in DOMAIN store
    /\ RecordIn(store, i).status = "running"
    /\ Truthy(RecordIn(store, i).pid)
    /\ procs[RecordIn(store, i).pid[1]].st = "alive"

\* The queue of subscriber j of shell i holds a chunk with the data m in it.
Received(i, j, m) ==
    /\ i \in DOMAIN pty
    /\ j <= Len(pty[i].subscribers)
    /\ \E c \in 1..Len(pty[i].subscribers[j].items) : \E p \in 1..Len(pty[i].subscribers[j].items[c]) : pty[i].subscribers[j].items[c][p] = m

\* C12: when a write to an interactive shell has succeeded while a
\* subscriber was attached, the subscriber's queue eventually holds the data
\* echoed back, unless the shell stops running or its PTY state is dropped
\* (reader threads and the echoing process being scheduled fairly).
C12_EchoReachesSubscriber ==
    \A i \in Ids, j \in 1..MaxSubs, m \in 1..MaxWrites :
       (ret.op = "write" /\ ret.err = "ok" /\ ret.id = i /\ ret.data = m /\ j <= ret.subs)
          ~> (Received(i, j, m) \/ ~ShellRunning(i) \/ i \notin DOMAIN pty)

\* --------------------------------------------------------------------- C21
\* C21: when terminate(id) returns a record marked exited, the process the
\* record pointed to before the call is no longer alive.
C21_TerminateConfirmsDeath ==
    [][(ret' # ret /\ ret'.op = "terminate" /\ ret'.err = "ok" /\ Truthy(RecordIn(store, ret'.id).pid))
       => procs'[RecordIn(store, ret'.id).pid[1]].st # "alive"]_vars

\* --------------------------------------------------------------------- C23
\* C23: terminate(id, force=false) on a live process sends SIGTERM first and
\* SIGKILL only second, and no SIGKILL when the process ended while the call
\* was polling (its exit status then says SIGTERM or a normal exit);
\* terminate(id, force=true) sends nothing but SIGKILL.
C23_SignalOrder ==
    [][(/\ ret' # ret
        /\ ret'.op = "terminate"
        /\ ret'.err = "ok"
        /\ Truthy(RecordIn(store, ret'.id).pid)
        /\ procs[RecordIn(store, ret'.id).pid[1]].st = "alive")
       => LET n == RecordIn(store, ret'.id).pid[1]
              died == ret'.rec[1].exit_code \in {Some(0 - SIGTERM), Some(0)}
          IN IF ret'.force THEN ret'.signals \in {<<>>, <<<<n, SIGKILL>>>>}
             ELSE /\ ret'.signals \in {<<>>, <<<<n, SIGTERM>>>>, <<<<n, SIGTERM>>, <<n, SIGKILL>>>>}
                  /\ died => ret'.signals # <<<<n, SIGTERM>>, <<n, SIGKILL>>>>]_vars

\* --------------------------------------------------------------------- C24
\* The process launched for record i is no longer alive: it has ended
\* (collected or not), or its pid now belongs to some other process.
ProcessEnded(ps, record) ==
    /\ Truthy(record.pid)
    /\ ~(ps[record.pid[1]].st = "alive" /\ ps[record.pid[1]].owner = record.id)

\* C24: every list, get and spawn leaves each record that existed before the
\* call either marked exited with no pid, when it had a pid whose process is
\* no longer alive, or byte-for-byte as it was.
C24_SweepExactlyDead ==
    [][(ret' # ret /\ ret'.op \in {"list", "get", "spawn"})
       => \A i \in DOMAIN store :
             /\ i \in DOMAIN store'
             /\ IF ProcessEnded(procs, RecordIn(store, i))
                THEN RecordIn(store', i).status = "exited" /\ RecordIn(store', i).pid = None
                ELSE store'[i] = store[i]]_vars

\* --------------------------------------------------------------------- C25
\* The statuses record shell_id has in the store, one after the other, over a
\* call: the one it had when the call began, then each one the call saved.
StatusChain(st, saves, shell_id) ==
    LET own == SelectSeq(saves, LAMBDA e : e[1] = shell_id)
    IN (IF shell_id \in DOMAIN st THEN <<RecordIn(st, shell_id).status>> ELSE <<>>) \o [k \in 1..Len(own) |-> own[k][2]]

StatusSteps == {<<"pending", "running">>, <<"running", "exited">>, <<"exited", "pending">>}

\* C25: whenever a call rewrites a record with another status, the change is
\* pending -> running, running -> exited or exited -> pending.
C25_StatusMachine ==
    [][(ret' # ret /\ ret'.op \in {"spawn", "spawn_pty", "terminate", "restart"})
       => \A i \in Ids :
             LET chain == StatusChain(store, ret'.saves, i)
             IN \A k \in 1..(Len(chain) - 1) : chain[k] = chain[k + 1] \/ <<chain[k], chain[k + 1]>> \in StatusSteps]_vars

\* --------------------------------------------------------------------- C26
\* C26: when a Manager is constructed, a record whose pid answers the
\* liveness probe and whose run_id is not the Manager's run identity gets the
\* Manager's run_id and launcher_pid and adopted = true; a record with no
\* live process, or with the Manager's run_id already, keeps the adopted flag
\* it had.
C26_AdoptedOnlyLiveStrangers ==
    [][(boots' = boots + 1) =>
         \A i \in DOMAIN store :
            LET old == RecordIn(store, i)
                new == RecordIn(store', i)
                alive == Truthy(old.pid) /\ _is_pid_alive(Orphaned(procs), old.pid)
            IN /\ i \in DOMAIN store'
               /\ (alive /\ old.run_id # mgr'.run_id)
                     => (new.adopted /\ new.run_id = mgr'.run_id /\ new.launcher_pid = Some(mgr'.launcher_pid))
               /\ (~alive \/ old.run_id = mgr'.run_id) => (new.adopted = old.adopted)]_vars

\* --------------------------------------------------------------------- C22
\* C22: whatever saves of a shell's record have run or are running, in one
\* Manager or two, a load finds no metadata file, or a file holding exactly
\* the document one save wrote, and returns the record of that document.
C22_LoadSeesWholeDocument ==
    ret.op = "load" =>
        \/ ret.file = None /\ ret.rec = None
        \/ /\ ret.file # None
           /\ ret.file[1] \in {SaveData(record) : record \in StoreRecords}
           /\ ret.rec = Some(LoadData(ret.file[1], ret.id, 0))

\* --------------------------------------------------------------------- C27
\* C27: a reader thread that has the hang-up of its master descriptor before
\* it (the shell's process has exited; os.read raises or returns nothing)
\* does not stay in its loop for ever, and a reader thread whose stop flag
\* was set does not run on for ever.
C27_ReaderExits ==
    /\ \A i \in Ids : ReaderAtHangUp(i) ~> ~ReaderAtHangUp(i)
    /\ \A t \in StaleReaders : (t \in stale) ~> (t \notin stale)

\* --------------------------------------------------------------------- C29
\* C29: no interactive shell id has two reader threads in their loops: one
\* whose PTY state was dropped and the one of the PTY state stored now.
C29_OneReaderPerShell ==
    \A t \in stale : ~(t.id \in DOMAIN pty /\ pty[t.id].reader.pc # "exited")

\* --------------------------------------------------------------------- C28
\* C28: for an id without PTY state, write and subscribe raise KeyError and
\* unsubscribe returns, all three leaving everything as it was; for an id
\* with PTY state, unsubscribe of a queue that is not subscribed changes
\* nothing, and subscribe followed by unsubscribe of the queue it returned
\* leaves the subscribers as they were.
C28_PubSubEdges ==
    \A i \in Ids :
       IF i \notin DOMAIN pty
       THEN /\ write_to_pty(World, i) = Result(World, "KeyError", None)
            /\ subscribe_output(World, i) = Result(World, "KeyError", None)
            /\ \A h \in 1..MaxQueues : unsubscribe_output(World, i, h) = Result(World, "ok", None)
       ELSE /\ \A h \in 1..MaxQueues :
                  (\A j \in DOMAIN pty[i].subscribers : pty[i].subscribers[j].h # h)
                     => unsubscribe_output(World, i, h) = Result(World, "ok", None)
            /\ LET r == subscribe_output(World, i)
               IN /\ r.err = "ok"
                  /\ unsubscribe_output(r.w, i, r.rec[1]).w.pty[i].subscribers = pty[i].subscribers

\* A queue that had been subscribed to a shell has been unsubscribed.
C28_Witness ==
    /\ ret.op = "unsubscribe"
    /\ ret.id \in DOMAIN pty
    /\ \A j \in DOMAIN pty[ret.id].subscribers : pty[ret.id].subscribers[j].h # ret.handle
    /\ ret.handle <= pty[ret.id].queues

\* --------------------------------------------------------------------- C30
\* C30: every terminate(id, force=false, timeout) that has begun returns,
\* whether or not the process obeys SIGTERM, and until then its loop has
\* slept no longer than the timeout, and not at all for a timeout of zero
\* or less.
C30_TerminateReturns ==
    /\ (other # None) ~> (other = None)
    /\ [](other # None => other[1].clock <= (IF other[1].timeout > 0 THEN other[1].timeout ELSE 0))

\* A terminate has returned after polling for the whole of its timeout.
C30_Witness ==
    /\ ret.op = "terminate_polled"
    /\ ret.err = "ok"
    /\ ret.timeout > 0
    /\ ret.slept = ret.timeout
    /\ other = None

\* --------------------------------------------------------------------- C34
\* C34: terminate(id) of a record that is exited with pid null returns and
\* leaves the persisted status, pid and exit_code as they were, whatever the
\* stored exit_code, 0 included.
C34_TerminateIdempotent ==
    [][(/\ ret' # ret
        /\ ret'.op = "terminate"
        /\ ret'.id \in DOMAIN store
        /\ RecordIn(store, ret'.id).status = "exited"
        /\ RecordIn(store, ret'.id).pid = None)
       => /\ ret'.err = "ok"
          /\ ret'.id \in DOMAIN store'
          /\ RecordIn(store', ret'.id).status = "exited"
          /\ RecordIn(store', ret'.id).pid = None
          /\ RecordIn(store', ret'.id).exit_code = RecordIn(store, ret'.id).exit_code]_vars

\* --------------------------------------------------------------------- C35
\* C35: every signal a Manager call delivers goes to the operating-system
\* process that was launched for the record of the call, never to an
\* unrelated process that has been given the stored pid number since.
C35_SignalsOnlyOwnProcess ==
    [][(ret' # ret /\ ret'.op \in {"terminate", "restart", "remove"})
       => \A k \in 1..Len(ret'.signals) :
            procs[ret'.signals[k][1]].owner = ret'.id]_vars

\* --------------------------------------------------------------------- C37
\* C37: when an interactive launch fails at process creation, in
\* spawn_shell_pty or in the relaunch of restart_shell, no PTY state is stored
\* for the shell and every descriptor of the pty pair is closed: the call
\* leaves no descriptor open that no PTY state holds.
C37_FailedLaunchReleasesPty ==
    [][(ret' # ret /\ ret'.op \in {"spawn_pty", "restart"} /\ ret'.err = "OSError")
       => /\ ret'.id \notin DOMAIN pty'
          /\ \A fd \in fds' :
               \/ \E i \in DOMAIN pty' : pty'[i].master_fd = fd
               \/ fd \in fds /\ ~\E i \in DOMAIN pty : pty[i].master_fd = fd]_vars

\* --------------------------------------------------------------------- C32
\* C32: a master descriptor is closed once, by its own shell's teardown: no
\* step closes the descriptor number held by a PTY state that stays stored
\* and whose reader thread is still in its loop (a close by the reader's exit
\* and a close by _stop_pty never hit the same number twice, so a number
\* that was reopened for another shell is never closed under it).
C32_MasterClosedOnce ==
    [][\A i \in DOMAIN pty \cap DOMAIN pty' :
         (/\ pty'[i].master_fd = pty[i].master_fd
          /\ pty[i].master_fd \in fds
          /\ pty[i].reader.pc # "exited"
          /\ pty'[i].reader.pc # "exited")
         => pty[i].master_fd \in fds']_vars

\* --------------------------------------------------------------------- C33
\* C33: once the reader thread of a shell has closed the master descriptor
\* (the shell's process has exited), write_to_pty(id) finds no PTY state and
\* raises KeyError, and nothing is written to any pseudo-terminal.
C33_WriteAfterReaderClose ==
    [][(/\ ret' # ret
        /\ ret'.op = "write"
        /\ ret'.id \in DOMAIN pty
        /\ pty[ret'.id].reader.pc = "exited")
       => (ret'.err = "KeyError" /\ tty' = tty)]_vars

\* C33, weakened to what reaches a terminal: write_to_pty(id) for a shell
\* whose reader has closed the master descriptor only acts on a descriptor
\* of that shell, so it puts no data on any pseudo-terminal.
C33_NoWriteToForeignTty ==
    [][(/\ ret' # ret
        /\ ret'.op = "write"
        /\ ret'.id \in DOMAIN pty
        /\ pty[ret'.id].reader.pc = "exited")
       => tty' = tty]_vars

\* --------------------------------------------------------------------- C31
\* What a subscriber has received is exactly the chunks its shell's reader
\* has put on the queues since it was attached, in that order, each once.
InOrderOnceNoneMissed(state, q) ==
    /\ q.since <= Len(Pushed(state))
    /\ q.items = [k \in 1..(Len(Pushed(state)) - q.since) |-> Pushed(state)[q.since + k].data]

\* C31: every subscriber receives the chunks in the order the reader read
\* them, each at most once, and misses none read while it was attached; and
\* every chunk put on a queue has been appended to the stdout log before.
C31_OrderedAndLogged ==
    \A i \in DOMAIN pty :
       /\ \A j \in DOMAIN pty[i].subscribers : InOrderOnceNoneMissed(pty[i], pty[i].subscribers[j])
       /\ \A j \in DOMAIN pty[i].subscribers :
             \A c \in DOMAIN pty[i].chunks :
                (pty[i].subscribers[j].since < c /\ c <= Len(Pushed(pty[i]))) => pty[i].chunks[c].logged

\* C31, amended: every subscriber receives the chunks in the order the reader
\* read them, each at most once, and misses none read while it was attached;
\* and the reader has handed every chunk to the stdout log before it puts it
\* on a queue: the log holds the chunk unless that write raised, in which
\* case the chunk still goes to the subscribers.
C31_OrderedLogAttempted ==
    \A i \in DOMAIN pty :
       /\ \A j \in DOMAIN pty[i].subscribers : InOrderOnceNoneMissed(pty[i], pty[i].subscribers[j])
       /\ pty[i].reader.pc = "deliver" =>
             (pty[i].chunks # <<>> /\ pty[i].chunks[Len(pty[i].chunks)].data = pty[i].reader.data)

\* A subscriber attached after a first chunk holds the second one only,
\* which the log did not take.
C31_Witness ==
    \E i \in DOMAIN pty :
       /\ Len(pty[i].chunks) = 2
       /\ ~pty[i].chunks[2].logged
       /\ \E j \in DOMAIN pty[i].subscribers :
            /\ pty[i].subscribers[j].since = 1
            /\ pty[i].subscribers[j].items = <<pty[i].chunks[2].data>>

\* --------------------------------------------------------------------- C38
\* C38: with an auth token configured, a request to a mutating route (create,
\* delete, action) whose X-Framework-Key header is missing or differs from
\* the token is answered 403, and it spawns, signals, restarts and removes no
\* shell: records, processes and PTY states are as before.
C38_ForbiddenChangesNothing ==
    [][(/\ ret' # ret
        /\ ret'.op \in {"create", "delete", "action"}
        /\ TruthyStr(mgr.auth_token)
        /\ ret'.key # mgr.auth_token)
       => /\ ret'.status = 403
          /\ ret'.signals = <<>>
          /\ UNCHANGED <<store, logs, procs, pty, fds, tty, nextId, nextPid, removed>>]_vars

\* A forced delete of a running shell was turned down for its key.
C38_Witness ==
    /\ ret.op = "delete"
    /\ ret.status = 403
    /\ ret.key = Some("k2")
    /\ mgr.auth_token = Some(ConfiguredToken)
    /\ ret.id \in DOMAIN store
    /\ RecordIn(store, ret.id).status = "running"
    /\ procs[RecordIn(store, ret.id).pid[1]].st = "alive"

C39_LoadFailsInFlight ==
    [][(~jobs.loaded /\ jobs'.loaded)
       => /\ DOMAIN jobs'.held = DOMAIN jobs.file
          /\ \A id \in DOMAIN jobs.file :
               /\ jobs.file[id].status \in InFlight =>
                     /\ jobs'.held[id].status = "failed"
                     /\ jobs'.held[id].error = Some("Job interrupted by restart")
                     /\ jobs'.held[id].finished_at # None
               /\ jobs.file[id].status \in Finished => jobs'.held[id].status = jobs.file[id].status
               /\ jobs'.held[id].status \notin InFlight]_vars

\* After a restart the Manager holds a job that was interrupted, stored as
\* pending, next to one that had succeeded before.
C39_Witness ==
    /\ jobs.loaded
    /\ jobs.boot = 1
    /\ \E a, b \in DOMAIN jobs.held :
         /\ a \in DOMAIN jobs.file /\ b \in DOMAIN jobs.file
         /\ jobs.file[a].status = "pending"
         /\ jobs.held[a].status = "failed"
         /\ jobs.held[a].error = Some("Job interrupted by restart")
         /\ jobs.held[a].pc = "none"
         /\ jobs.file[b].status = "succeeded"
         /\ jobs.held[b].status = "succeeded"

\* --------------------------------------------------------------------- C40
\* C40: once a job's status is succeeded, failed or cancelled it never
\* changes again, however the job's thread (a handler that calls finish and
\* then raises or is cancelled included) and cancel requests interleave.
C40_FinishedIsFinal ==
    [][\A id \in DOMAIN jobs.held \cap DOMAIN jobs'.held :
         jobs.held[id].status \in Finished => jobs'.held[id].status = jobs.held[id].status]_vars

====
